---------------------------- MODULE Spec2Model ----------------------------
(***************************************************************************)
(* Connection-lifecycle model of the KVM, IDER and Sol React components.   *)
(*                                                                         *)
(* A component is modelled at the granularity of React's commit: one       *)
(* action is one event (a click, a prop change, a callback of the external *)
(* redirector, a timer) together with the re-render it causes and every    *)
(* effect that re-render runs.  Effects run child first (PureCanvas before *)
(* KVM), and within one component in declaration order.                    *)
(*                                                                         *)
(* The external core library is the environment: a redirector whose start  *)
(* was invoked holds an open socket until stop is invoked or it reports    *)
(* state 0; it reports 1 and then 2 while the socket is open.              *)
(*                                                                         *)
(* One run mounts one of the three components (component).  ev, evArg and *)
(* calls describe the last event: its name, its argument, and the log of   *)
(* the outbound calls it made, each as                                     *)
(* <<operation, object id, state of the object before the call>>.          *)
(***************************************************************************)
EXTENDS Integers, Sequences, FiniteSets, TLC

\* ------------------------------------------------------------------ bounds
MaxGraphs == 4          \* handler graphs KVM may construct in one run
MaxTimers == 1          \* restart timers pending at once
MaxIderObjs == 5        \* objects IDER may construct in one run
MaxSolGraphs == 3       \* handler graphs Sol may construct in one run
TickMs == 1000          \* granularity of the passage of time
InitsPerEvent == 2      \* room left in the heap for the inits of one event
MaxCounter == 2048      \* bytes the transfer counters of an IDER handler may add up to
MaxSectors == 1         \* sectors one sector callback may report
MaxTerms == 2           \* Term instances the parent may mount in one run
MaxWrite == 3           \* characters of one string the data processor writes
MaxReads == 1           \* clipboard reads pending at once

\* --------------------------------------------------------- program constants
RECONNECT_DELAY == 2000 \* setTimeout delay of the automatic restart
DEFAULT_ENCODING == 1   \* useState<number>(1)

Null == 0               \* a ref holding null
DeviceIds == {"d1", "d2"}
AuthTokens == {"t1", "t2"}
Encodings == {1, 2}
ConnStates == {0, 1, 2}

MIN_DEBOUNCE_TIME == 200 \* mouseDebounceTime < 200 ? 200 : mouseDebounceTime
REDIRECT_PORT == 16994  \* port of every redirector configuration
FLOPPY_SECTOR == 512    \* bytes per floppy sector
CDROM_SECTOR == 2048    \* bytes per CD-ROM sector

\* A prop that is null. Text the code transforms is a sequence of characters,
\* and the null text is the one sequence whose element is no character.
NullProp == "null"
NullServer == <<NullProp>>
DefaultServer == <<"h", "t", "t", "p", "s", ":", "m">>
MpsServers ==
  {DefaultServer, <<"h", "t", "t", "p", ":", "m">>, <<"w", "s", "s", ":", "m">>,
   <<"m", "/", "h", "t", "t", "p", "/", "h", "t", "t", "p">>, <<>>, NullServer}
MouseDebounceTimes == {-1, 0, 199, 200, 201, 500}

VARIABLES
  component,                \* "kvm" | "ider" | "sol": the component this run mounts
  lifecycle,                \* "new" | "mounted" | "unmounted"
  ev,                       \* the last event
  evArg,                    \* its argument (a state, an encoding, an object id, an age)
  calls,                    \* outbound calls of the last event
  ctxAvail,                 \* canvas.getContext('2d') yields a context
  props,                    \* props of the committed render
  mountProps,               \* props of the first render (closure of the unmount effect)
  kvmstate,
  encodingOption,
  moduleRef,
  dataProcessorRef,
  redirectorRef,
  mouseHelperRef,
  keyboardRef,
  desktopSettingsChangeRef,
  ctxRef,                   \* TRUE when ctxRef.current is not null
  prevDeviceIdRef,
  initRef,                  \* the values captured by the init stored in initRef
  heap,                     \* the handler graphs constructed so far, by id
  nextId,
  timers,                   \* pending setTimeout callbacks: <<delay, age>>
  \* IDER
  iderProps,                \* iderState, deviceId, authToken, cdrom
  iderRedirectorRef,
  iderRef,
  prevIderStateRef,
  iderHeap,                 \* the AMTRedirector and AMTIDER objects constructed, by id
  iderNextId,
  \* Sol
  solProps,                 \* deviceId, authToken
  SOLstate,
  xterm,                    \* the Terminal held in component state
  solRedirectorRef,
  terminalRef,
  solDataProcessorRef,
  termRef,
  solHeap,                  \* the Sol handler graphs constructed, by id
  solNextId,
  \* Term
  termInst,                 \* the Term instance mounted last (0: none yet)
  termProps,                \* handleKeyPress and xterm props of the committed render
  openedRef,
  handleKeyPressRef,        \* handleKeyPressRef.current of every Term instance
  xterms,                   \* the xterm.js terminals: open calls, key handlers, DOM node
  pendingReads,             \* clipboard reads not settled yet, by the instance that asked
  \* AttachDiskImage, EncodingOptions, ConnectButton
  selectedFile,
  attachIderState,          \* iderState of AttachDiskImage
  value,                    \* the encoding EncodingOptions shows as selected
  headerState               \* the kvmstate the header components are rendered with

sharedVars == <<component, lifecycle, ev, evArg, calls>>

kvmVars == <<ctxAvail, props, mountProps, kvmstate, encodingOption,
             moduleRef, dataProcessorRef, redirectorRef, mouseHelperRef,
             keyboardRef, desktopSettingsChangeRef, ctxRef, prevDeviceIdRef,
             initRef, heap, nextId, timers>>

iderVars == <<iderProps, iderRedirectorRef, iderRef, prevIderStateRef, iderHeap,
              iderNextId>>

solVars == <<solProps, SOLstate, xterm, solRedirectorRef, terminalRef,
             solDataProcessorRef, termRef, solHeap, solNextId>>

termVars == <<termInst, termProps, openedRef, handleKeyPressRef, xterms, pendingReads>>

widgetVars == <<selectedFile, attachIderState, value, headerState>>

vars == <<sharedVars, kvmVars, iderVars, solVars, termVars, widgetVars>>

\* ---------------------------------------------------------------- KVM state
\* The component instance as one record, so that handlers compose.
KvmState ==
  [lifecycle |-> lifecycle, ctxAvail |-> ctxAvail, props |-> props,
   mountProps |-> mountProps, kvmstate |-> kvmstate,
   encodingOption |-> encodingOption, moduleRef |-> moduleRef,
   dataProcessorRef |-> dataProcessorRef, redirectorRef |-> redirectorRef,
   mouseHelperRef |-> mouseHelperRef, keyboardRef |-> keyboardRef,
   desktopSettingsChangeRef |-> desktopSettingsChangeRef, ctxRef |-> ctxRef,
   prevDeviceIdRef |-> prevDeviceIdRef, initRef |-> initRef, heap |-> heap,
   nextId |-> nextId, timers |-> timers, ev |-> ev, evArg |-> evArg,
   calls |-> calls]

\* A handler graph that was not constructed yet.
NoGraph ==
  [host |-> "", authToken |-> "", sock |-> FALSE, rstate |-> 0,
   bpp |-> 0, grabbed |-> FALSE, mode |-> "", server |-> <<>>, port |-> 0,
   user |-> "", pass |-> "", tls |-> 0, tls1only |-> 0, debounceTime |-> 0]

Held(s) ==
  {s.moduleRef, s.dataProcessorRef, s.redirectorRef, s.mouseHelperRef,
   s.keyboardRef} \ {Null}

\* Of a graph no ref holds, only the redirector can still act on the
\* component (through the callbacks wired to it): the rest is garbage.
Collect(s) ==
  [id \in DOMAIN s.heap |->
     IF id \in Held(s) THEN s.heap[id]
     ELSE [NoGraph EXCEPT !.sock = s.heap[id].sock, !.rstate = s.heap[id].rstate]]

KvmCommit(s) ==
  /\ lifecycle' = s.lifecycle
  /\ ctxAvail' = s.ctxAvail
  /\ props' = s.props
  /\ mountProps' = s.mountProps
  /\ kvmstate' = s.kvmstate
  /\ encodingOption' = s.encodingOption
  /\ moduleRef' = s.moduleRef
  /\ dataProcessorRef' = s.dataProcessorRef
  /\ redirectorRef' = s.redirectorRef
  /\ mouseHelperRef' = s.mouseHelperRef
  /\ keyboardRef' = s.keyboardRef
  /\ desktopSettingsChangeRef' = s.desktopSettingsChangeRef
  /\ ctxRef' = s.ctxRef
  /\ prevDeviceIdRef' = s.prevDeviceIdRef
  /\ initRef' = s.initRef
  /\ heap' = Collect(s)
  /\ nextId' = s.nextId
  /\ timers' = s.timers
  /\ ev' = s.ev
  /\ evArg' = s.evArg
  /\ calls' = s.calls
  /\ UNCHANGED <<component, iderVars, solVars, termVars, widgetVars>>

\* The values an init closure captures (its useCallback dependencies).
Closure(p, enc) ==
  [deviceId |-> p.deviceId, authToken |-> p.authToken, encodingOption |-> enc,
   mpsServer |-> p.mpsServer, mouseDebounceTime |-> p.mouseDebounceTime]

NoopInit ==
  [deviceId |-> "", authToken |-> "", encodingOption |-> 0,
   mpsServer |-> <<>>, mouseDebounceTime |-> 0]

\* String.prototype.replace with a string pattern: the first occurrence of
\* pattern in str is replaced, a str without one is returned as it is.
indexOf(str, pattern) ==
  LET hits == {i \in 1..(Len(str) - Len(pattern) + 1) :
                 SubSeq(str, i, i + Len(pattern) - 1) = pattern}
  IN IF hits = {} THEN 0 ELSE CHOOSE i \in hits : \A j \in hits : i <= j

replace(str, pattern, replacement) ==
  LET i == indexOf(str, pattern)
  IN IF i = 0 THEN str
     ELSE SubSeq(str, 1, i - 1) \o replacement
            \o SubSeq(str, i + Len(pattern), Len(str))

\* mpsServer != null ? mpsServer.replace('http', 'ws') : ''
server(mpsServer) ==
  IF mpsServer # NullServer
  THEN replace(mpsServer, <<"h", "t", "t", "p">>, <<"w", "s">>)
  ELSE <<>>

\* Mutant of OrEmpty: the null value is passed on.
OrEmpty_KeepsNull(x) == x

\* x != null ? x : ''
OrEmpty(x) == IF x # NullProp THEN x ELSE ""

\* Mutant of debounceTime: the configured value is passed on as it is.
debounceTime_Unclamped(mouseDebounceTime) == mouseDebounceTime

debounceTime(mouseDebounceTime) ==
  IF mouseDebounceTime < MIN_DEBOUNCE_TIME THEN MIN_DEBOUNCE_TIME
  ELSE mouseDebounceTime

Log(s, op, id, pre) == [s EXCEPT !.calls = Append(@, <<op, id, pre>>)]

\* --------------------------------------------------- external object methods
RedirectorStart(s, id) ==
  Log([s EXCEPT !.heap[id].sock = TRUE], "start", id, s.heap[id].sock)

RedirectorStop(s, id) ==
  Log([s EXCEPT !.heap[id].sock = FALSE], "stop", id, s.heap[id].sock)

GrabKeyInput(s, id) ==
  Log([s EXCEPT !.heap[id].grabbed = TRUE], "GrabKeyInput", id, s.heap[id].grabbed)

UnGrabKeyInput(s, id) ==
  Log([s EXCEPT !.heap[id].grabbed = FALSE], "UnGrabKeyInput", id, s.heap[id].grabbed)

\* ------------------------------------------------------------- KVM handlers
cleanUp(s) ==
  LET t == [s EXCEPT !.moduleRef = Null, !.dataProcessorRef = Null,
                     !.redirectorRef = Null, !.mouseHelperRef = Null,
                     !.keyboardRef = Null]
  IN IF t.ctxRef THEN Log(t, "clearRect", Null, FALSE) ELSE t

\* Mutant of init: no test of the canvas context.
init_Unguarded(s, c) ==
  LET id == s.nextId
      t == [s EXCEPT !.moduleRef = id, !.redirectorRef = id,
                     !.dataProcessorRef = id, !.mouseHelperRef = id,
                     !.keyboardRef = id,
                     !.heap[id] = [host |-> OrEmpty(c.deviceId),
                                   authToken |-> c.authToken,
                                   sock |-> FALSE, rstate |-> 0,
                                   bpp |-> c.encodingOption,
                                   grabbed |-> FALSE,
                                   mode |-> "kvm",
                                   server |-> server(c.mpsServer),
                                   port |-> REDIRECT_PORT,
                                   user |-> "", pass |-> "",
                                   tls |-> 0, tls1only |-> 0,
                                   debounceTime |->
                                     debounceTime(c.mouseDebounceTime)],
                     !.nextId = id + 1]
  IN Log(t, "new", id, FALSE)

\* Mutant of init: the keyboard helper is not constructed.
init_NoKeyboard(s, c) ==
  IF ~s.ctxRef THEN s
  ELSE LET id == s.nextId
           t == [s EXCEPT !.moduleRef = id, !.redirectorRef = id,
                          !.dataProcessorRef = id, !.mouseHelperRef = id,
                          !.heap[id] = [host |-> OrEmpty(c.deviceId),
                                        authToken |-> c.authToken,
                                        sock |-> FALSE, rstate |-> 0,
                                        bpp |-> c.encodingOption,
                                        grabbed |-> FALSE,
                                        mode |-> "kvm",
                                        server |-> server(c.mpsServer),
                                        port |-> REDIRECT_PORT,
                                        user |-> "", pass |-> "",
                                        tls |-> 0, tls1only |-> 0,
                                        debounceTime |->
                                          debounceTime(c.mouseDebounceTime)],
                          !.nextId = id + 1]
       IN Log(t, "new", id, FALSE)

init(s, c) ==
  IF ~s.ctxRef THEN s
  ELSE LET id == s.nextId
           t == [s EXCEPT !.moduleRef = id, !.redirectorRef = id,
                          !.dataProcessorRef = id, !.mouseHelperRef = id,
                          !.keyboardRef = id,
                          !.heap[id] = [host |-> OrEmpty(c.deviceId),
                                        authToken |-> c.authToken,
                                        sock |-> FALSE, rstate |-> 0,
                                        bpp |-> c.encodingOption,
                                        grabbed |-> FALSE,
                                        mode |-> "kvm",
                                        server |-> server(c.mpsServer),
                                        port |-> REDIRECT_PORT,
                                        user |-> "", pass |-> "",
                                        tls |-> 0, tls1only |-> 0,
                                        debounceTime |->
                                          debounceTime(c.mouseDebounceTime)],
                          !.nextId = id + 1]
       IN Log(t, "new", id, FALSE)

reset(s, c) == init(cleanUp(s), c)

saveContext(s, c) == init([s EXCEPT !.ctxRef = TRUE], c)

startKVM(s) ==
  LET t == IF s.redirectorRef # Null THEN RedirectorStart(s, s.redirectorRef) ELSE s
  IN IF t.keyboardRef # Null THEN GrabKeyInput(t, t.keyboardRef) ELSE t

\* Mutants of stopKVM: one that does not reset, one that cancels the pending
\* restart, one that leaves the keyboard grabbed, one that writes the
\* connection state.
stopKVM_NoReset(s, c) ==
  LET t == IF s.redirectorRef # Null THEN RedirectorStop(s, s.redirectorRef) ELSE s
  IN IF t.keyboardRef # Null THEN UnGrabKeyInput(t, t.keyboardRef) ELSE t

stopKVM_CancelsTimer(s, c) ==
  LET t == IF s.redirectorRef # Null THEN RedirectorStop(s, s.redirectorRef) ELSE s
      u == IF t.keyboardRef # Null THEN UnGrabKeyInput(t, t.keyboardRef) ELSE t
  IN [reset(u, c) EXCEPT !.timers = <<>>]

stopKVM_KeepsKeyboard(s, c) ==
  LET t == IF s.redirectorRef # Null THEN RedirectorStop(s, s.redirectorRef) ELSE s
  IN reset(t, c)

stopKVM_SetsState(s, c) ==
  LET t == IF s.redirectorRef # Null THEN RedirectorStop(s, s.redirectorRef) ELSE s
      u == IF t.keyboardRef # Null THEN UnGrabKeyInput(t, t.keyboardRef) ELSE t
  IN [reset(u, c) EXCEPT !.kvmstate = 0]

stopKVM(s, c) ==
  LET t == IF s.redirectorRef # Null THEN RedirectorStop(s, s.redirectorRef) ELSE s
      u == IF t.keyboardRef # Null THEN UnGrabKeyInput(t, t.keyboardRef) ELSE t
  IN reset(u, c)

setTimeout(s, delay) ==
  Log([s EXCEPT !.timers = Append(@, <<delay, 0>>)], "setTimeout", delay, FALSE)

\* setKvmstate is a no-op once the component is unmounted.
setKvmstate(s, state) ==
  IF s.lifecycle = "mounted" THEN [s EXCEPT !.kvmstate = state] ELSE s

\* Mutant of OnConnectionStateChange: every report of state 0 schedules a
\* restart, whatever the flag.
OnConnectionStateChange_AnyDisconnect(s, state) ==
  LET t == setKvmstate(s, state)
  IN IF state = 0
     THEN setTimeout([t EXCEPT !.desktopSettingsChangeRef = FALSE], RECONNECT_DELAY)
     ELSE t

\* Mutant of OnConnectionStateChange: the flag is not cleared.
OnConnectionStateChange_KeepsFlag(s, state) ==
  LET t == setKvmstate(s, state)
  IN IF t.desktopSettingsChangeRef /\ state = 0
     THEN setTimeout(t, RECONNECT_DELAY)
     ELSE t

OnConnectionStateChange(s, state) ==
  LET t == setKvmstate(s, state)
  IN IF t.desktopSettingsChangeRef /\ state = 0
     THEN setTimeout([t EXCEPT !.desktopSettingsChangeRef = FALSE], RECONNECT_DELAY)
     ELSE t

\* Mutant of onError: the init of the first render is called.
onError_FirstInit(s) == init(cleanUp(s), Closure(s.mountProps, DEFAULT_ENCODING))

\* Mutant of onError: clean up and give up.
onError_GivesUp(s) == cleanUp(s)

onError(s) == init(cleanUp(s), s.initRef)

\* Mutant of changeDesktopSettings: the connected branch is taken in any state.
changeDesktopSettings_AlwaysReconnects(s, c, encoding) ==
  LET t == [s EXCEPT !.desktopSettingsChangeRef = TRUE]
      u == IF t.moduleRef # Null
           THEN [t EXCEPT !.heap[t.moduleRef].bpp = encoding] ELSE t
  IN stopKVM(u, c)

changeDesktopSettings(s, c, encoding) ==
  IF s.kvmstate = 2
  THEN LET t == [s EXCEPT !.desktopSettingsChangeRef = TRUE]
           u == IF t.moduleRef # Null
                THEN [t EXCEPT !.heap[t.moduleRef].bpp = encoding] ELSE t
       IN stopKVM(u, c)
  ELSE LET t == [s EXCEPT !.encodingOption = encoding]
       IN IF t.moduleRef # Null
          THEN [t EXCEPT !.heap[t.moduleRef].bpp = encoding] ELSE t

\* Mutant of handleConnectClick: a click while connecting stops the connection.
handleConnectClick_StopsWhileConnecting(s, c) ==
  IF s.kvmstate = 0 THEN startKVM(s) ELSE stopKVM(s, c)

handleConnectClick(s, c) ==
  IF s.kvmstate = 0 THEN startKVM(s)
  ELSE IF s.kvmstate = 1 THEN s
  ELSE IF s.kvmstate = 2 THEN stopKVM(s, c)
  ELSE s

\* The effects of the render that commits state s after a render that
\* committed closure old: PureCanvas' context effect, the initRef effect and
\* the deviceId effect, all of which depend on the identity of init.
deviceIdEffect(s, c) ==
  IF s.prevDeviceIdRef # s.props.deviceId
  THEN [stopKVM(s, c) EXCEPT !.prevDeviceIdRef = s.props.deviceId]
  ELSE s

pureCanvasEffect(s, c) == IF s.ctxAvail THEN saveContext(s, c) ELSE s

RunEffects(s, old) ==
  LET c == Closure(s.props, s.encodingOption)
  IN IF c = old THEN s
     ELSE LET t == pureCanvasEffect(s, c)
              u == [t EXCEPT !.initRef = c]
          IN deviceIdEffect(u, c)

\* ------------------------------------------------------------------- actions
Begin(name, arg) == [KvmState EXCEPT !.ev = name, !.evArg = arg, !.calls = <<>>]
KvmMounted == component = "kvm" /\ lifecycle = "mounted"
Committed == Closure(props, encodingOption)
Fits(s) == s.nextId <= MaxGraphs + 1 /\ Len(s.timers) <= MaxTimers

Mount ==
  /\ component = "kvm"
  /\ lifecycle = "new"
  /\ LET s == [Begin("Mount", 0) EXCEPT !.lifecycle = "mounted"]
         r == RunEffects(s, NoopInit)
     IN Fits(r) /\ KvmCommit(r)

ConnectClick ==
  /\ KvmMounted
  /\ LET r == handleConnectClick(Begin("ConnectClick", kvmstate), Committed)
     IN Fits(r) /\ KvmCommit(r)

ChangeEncoding ==
  /\ KvmMounted
  /\ \E e \in Encodings :
       LET r == RunEffects(changeDesktopSettings(Begin("ChangeEncoding", e), Committed, e),
                           Committed)
       IN Fits(r) /\ KvmCommit(r)

DeviceChange ==
  /\ KvmMounted
  /\ \E d \in DeviceIds \ {props.deviceId} :
       LET r == RunEffects([Begin("DeviceChange", 0) EXCEPT !.props.deviceId = d], Committed)
       IN Fits(r) /\ KvmCommit(r)

AuthTokenChange ==
  /\ KvmMounted
  /\ \E a \in AuthTokens \ {props.authToken} :
       LET r == RunEffects([Begin("AuthTokenChange", 0) EXCEPT !.props.authToken = a], Committed)
       IN Fits(r) /\ KvmCommit(r)

\* The values the mpsServer and mouseDebounceTime props change between.
ChangedServers == {DefaultServer, <<"h", "t", "t", "p", ":", "m">>}
ChangedDebounceTimes == {MIN_DEBOUNCE_TIME, 500}

MpsServerChange ==
  /\ KvmMounted
  /\ \E m \in ChangedServers \ {props.mpsServer} :
       LET r == RunEffects([Begin("MpsServerChange", 0) EXCEPT !.props.mpsServer = m], Committed)
       IN Fits(r) /\ KvmCommit(r)

MouseDebounceTimeChange ==
  /\ KvmMounted
  /\ \E t \in ChangedDebounceTimes \ {props.mouseDebounceTime} :
       LET r == RunEffects([Begin("MouseDebounceTimeChange", t) EXCEPT
                              !.props.mouseDebounceTime = t], Committed)
       IN Fits(r) /\ KvmCommit(r)

Unmount ==
  /\ KvmMounted
  /\ LET s == [Begin("Unmount", 0) EXCEPT !.lifecycle = "unmounted"]
         r == stopKVM(s, Closure(mountProps, DEFAULT_ENCODING))
     IN Fits(r) /\ KvmCommit(r)

\* The redirector id reports a new connection state through onStateChanged.
StateCallback ==
  \E id \in 1..(nextId - 1) : \E st \in ConnStates :
    /\ \/ st = 1 /\ heap[id].sock /\ heap[id].rstate = 0
       \/ st = 2 /\ heap[id].sock /\ heap[id].rstate = 1
       \/ st = 0 /\ heap[id].rstate # 0
    /\ LET s == [Begin("StateCallback", st) EXCEPT
                   !.heap[id].rstate = st,
                   !.heap[id].sock = IF st = 0 THEN FALSE ELSE @]
           r == OnConnectionStateChange(s, st)
       IN Fits(r) /\ KvmCommit(r)

\* The redirector id, its socket open, reports an error through onError.
RedirectorError ==
  \E id \in 1..(nextId - 1) :
    /\ heap[id].sock
    /\ LET r == onError(Begin("RedirectorError", id))
       IN Fits(r) /\ KvmCommit(r)

Tick ==
  /\ \E i \in 1..Len(timers) : timers[i][2] < timers[i][1]
  /\ timers' = [i \in 1..Len(timers) |->
                  <<timers[i][1],
                    IF timers[i][2] + TickMs > timers[i][1]
                    THEN timers[i][1] ELSE timers[i][2] + TickMs>>]
  /\ ev' = "Tick"
  /\ evArg' = TickMs
  /\ calls' = <<>>
  /\ UNCHANGED <<component, lifecycle, ctxAvail, props, mountProps, kvmstate, encodingOption,
                 moduleRef, dataProcessorRef, redirectorRef, mouseHelperRef,
                 keyboardRef, desktopSettingsChangeRef, ctxRef, prevDeviceIdRef,
                 initRef, heap, nextId, iderVars, solVars, termVars, widgetVars>>

RemoveAt(seq, i) == SubSeq(seq, 1, i - 1) \o SubSeq(seq, i + 1, Len(seq))

\* A pending timer whose delay has passed runs its callback.
TimerFire ==
  \E i \in 1..Len(timers) :
    /\ timers[i][2] >= timers[i][1]
    /\ LET s == [Begin("TimerFire", timers[i][2]) EXCEPT !.timers = RemoveAt(@, i)]
           r == startKVM(s)
       IN Fits(r) /\ KvmCommit(r)

DefaultKvmProps ==
  [deviceId |-> "d1", authToken |-> "t1", mpsServer |-> DefaultServer,
   mouseDebounceTime |-> MIN_DEBOUNCE_TIME]

\* KVM before its first render, given the props of that render.
KvmNew(p) ==
  /\ ctxAvail \in BOOLEAN
  /\ props = p
  /\ mountProps = props
  /\ kvmstate = 0
  /\ encodingOption = DEFAULT_ENCODING
  /\ moduleRef = Null
  /\ dataProcessorRef = Null
  /\ redirectorRef = Null
  /\ mouseHelperRef = Null
  /\ keyboardRef = Null
  /\ desktopSettingsChangeRef = FALSE
  /\ ctxRef = FALSE
  /\ prevDeviceIdRef = props.deviceId
  /\ initRef = NoopInit
  /\ heap = [id \in 1..(MaxGraphs + InitsPerEvent) |-> NoGraph]
  /\ nextId = 1
  /\ timers = <<>>

KvmInit == KvmNew(DefaultKvmProps)


\* ======================================================================= IDER
IderState ==
  [lifecycle |-> lifecycle, ev |-> ev, evArg |-> evArg, calls |-> calls,
   iderProps |-> iderProps, iderRedirectorRef |-> iderRedirectorRef,
   iderRef |-> iderRef, prevIderStateRef |-> prevIderStateRef,
   iderHeap |-> iderHeap, iderNextId |-> iderNextId]

NoIderObj ==
  [kind |-> "none", host |-> "", authToken |-> "", sock |-> FALSE, cdrom |-> 0,
   mode |-> "", server |-> <<>>, port |-> 0, user |-> "", pass |-> "",
   tls |-> 0, tls1only |-> 0,
   floppyRead |-> 0, floppyWrite |-> 0, cdromRead |-> 0, cdromWrite |-> 0]

\* Of an object no ref holds, only the redirector's socket is kept.
IderCollect(s) ==
  [id \in DOMAIN s.iderHeap |->
     IF id \in {s.iderRedirectorRef, s.iderRef} THEN s.iderHeap[id]
     ELSE [NoIderObj EXCEPT !.kind = s.iderHeap[id].kind,
                            !.sock = s.iderHeap[id].sock]]

IderCommit(s) ==
  /\ lifecycle' = s.lifecycle
  /\ ev' = s.ev
  /\ evArg' = s.evArg
  /\ calls' = s.calls
  /\ iderProps' = s.iderProps
  /\ iderRedirectorRef' = s.iderRedirectorRef
  /\ iderRef' = s.iderRef
  /\ prevIderStateRef' = s.prevIderStateRef
  /\ iderHeap' = IderCollect(s)
  /\ iderNextId' = s.iderNextId
  /\ UNCHANGED <<component, kvmVars, solVars, termVars, widgetVars>>

IderRedirectorStart(s, id) ==
  Log([s EXCEPT !.iderHeap[id].sock = TRUE], "start", id, s.iderHeap[id].sock)

IderRedirectorStop(s, id) ==
  Log([s EXCEPT !.iderHeap[id].sock = FALSE], "stop", id, s.iderHeap[id].sock)

\* The parent's updateIderState: the prop already has the value it is given.
updateIderState(s, newState) == Log(s, "updateIderState", newState, FALSE)

cleanup(s) == [s EXCEPT !.iderRedirectorRef = Null, !.iderRef = Null]

newAMTIDER(s) ==
  LET id == s.iderNextId
      t == [s EXCEPT !.iderRef = id,
                     !.iderHeap[id] = [NoIderObj EXCEPT !.kind = "ider",
                                                        !.cdrom = s.iderProps.cdrom],
                     !.iderNextId = id + 1]
  IN Log(t, "newAMTIDER", id, FALSE)

newAMTRedirector(s) ==
  LET id == s.iderNextId
      t == [s EXCEPT !.iderRedirectorRef = id,
                     !.iderHeap[id] = [NoIderObj EXCEPT
                                         !.kind = "redirector",
                                         !.host = OrEmpty(s.iderProps.deviceId),
                                         !.authToken = OrEmpty(s.iderProps.authToken),
                                         !.mode = "ider",
                                         !.server = server(s.iderProps.mpsServer),
                                         !.port = REDIRECT_PORT],
                     !.iderNextId = id + 1]
  IN Log(t, "newAMTRedirector", id, FALSE)

startIder(s) ==
  LET t == updateIderState(s, 1)
  IN IF t.iderRedirectorRef # Null
     THEN IderRedirectorStart(newAMTIDER(t), t.iderRedirectorRef)
     ELSE t

stopIder(s) ==
  LET t == updateIderState(s, 0)
  IN IF t.iderRedirectorRef # Null
     THEN cleanup(IderRedirectorStop(t, t.iderRedirectorRef))
     ELSE t

\* Mutant of iderSectorStats: no null test, the property access on a null
\* handler throws.
iderSectorStats_Unguarded(s, mode, dev, len) ==
  IF s.iderRef = Null THEN Log(s, "TypeError", Null, FALSE)
  ELSE IF mode = 1
       THEN IF dev = 0
            THEN [s EXCEPT !.iderHeap[s.iderRef].floppyRead = @ + len * FLOPPY_SECTOR]
            ELSE [s EXCEPT !.iderHeap[s.iderRef].cdromRead = @ + len * CDROM_SECTOR]
       ELSE IF dev = 0
            THEN [s EXCEPT !.iderHeap[s.iderRef].floppyWrite = @ + len * FLOPPY_SECTOR]
            ELSE [s EXCEPT !.iderHeap[s.iderRef].cdromWrite = @ + len * CDROM_SECTOR]

\* Mutant of iderSectorStats: every device counts floppy sectors.
iderSectorStats_FloppySectors(s, mode, dev, len) ==
  IF s.iderRef = Null THEN s
  ELSE IF mode = 1
       THEN IF dev = 0
            THEN [s EXCEPT !.iderHeap[s.iderRef].floppyRead = @ + len * FLOPPY_SECTOR]
            ELSE [s EXCEPT !.iderHeap[s.iderRef].cdromRead = @ + len * FLOPPY_SECTOR]
       ELSE IF dev = 0
            THEN [s EXCEPT !.iderHeap[s.iderRef].floppyWrite = @ + len * FLOPPY_SECTOR]
            ELSE [s EXCEPT !.iderHeap[s.iderRef].cdromWrite = @ + len * FLOPPY_SECTOR]

iderSectorStats(s, mode, dev, len) ==
  IF s.iderRef = Null THEN s
  ELSE IF mode = 1
       THEN IF dev = 0
            THEN [s EXCEPT !.iderHeap[s.iderRef].floppyRead = @ + len * FLOPPY_SECTOR]
            ELSE [s EXCEPT !.iderHeap[s.iderRef].cdromRead = @ + len * CDROM_SECTOR]
       ELSE IF dev = 0
            THEN [s EXCEPT !.iderHeap[s.iderRef].floppyWrite = @ + len * FLOPPY_SECTOR]
            ELSE [s EXCEPT !.iderHeap[s.iderRef].cdromWrite = @ + len * CDROM_SECTOR]

\* The redirector-initialization effect: the cleanup of its previous run,
\* then its body.
iderInitEffectCleanup(s) == cleanup(s)
iderInitEffect(s) == newAMTRedirector(s)

iderStateEffect(s) ==
  IF s.prevIderStateRef # s.iderProps.iderState
  THEN [(IF s.iderProps.iderState = 1 THEN startIder(s) ELSE stopIder(s))
          EXCEPT !.prevIderStateRef = s.iderProps.iderState]
  ELSE s

\* Effects of the render that commits s after one that committed props old.
IderRunEffects(s, old) ==
  LET t == IF <<s.iderProps.deviceId, s.iderProps.authToken>>
              # <<old.deviceId, old.authToken>>
           THEN iderInitEffect(iderInitEffectCleanup(s)) ELSE s
  IN iderStateEffect(t)

IderBegin(name, arg) == [IderState EXCEPT !.ev = name, !.evArg = arg, !.calls = <<>>]
IderMounted == component = "ider" /\ lifecycle = "mounted"
IderFits(s) ==
  /\ s.iderNextId <= MaxIderObjs + 1
  /\ \A id \in DOMAIN s.iderHeap :
       s.iderHeap[id].floppyRead + s.iderHeap[id].floppyWrite
         + s.iderHeap[id].cdromRead + s.iderHeap[id].cdromWrite <= MaxCounter

IderMount ==
  /\ component = "ider"
  /\ lifecycle = "new"
  /\ LET s == [IderBegin("IderMount", 0) EXCEPT !.lifecycle = "mounted"]
         r == iderStateEffect(iderInitEffect(s))
     IN IderFits(r) /\ IderCommit(r)

\* The parent flips the iderState prop.
IderStateChange ==
  /\ IderMounted
  /\ \E st \in {0, 1} \ {iderProps.iderState} :
       LET r == IderRunEffects([IderBegin("IderStateChange", st) EXCEPT
                                  !.iderProps.iderState = st], iderProps)
       IN IderFits(r) /\ IderCommit(r)

IderDeviceChange ==
  /\ IderMounted
  /\ \E d \in DeviceIds \ {iderProps.deviceId} :
       LET r == IderRunEffects([IderBegin("IderDeviceChange", 0) EXCEPT
                                  !.iderProps.deviceId = d], iderProps)
       IN IderFits(r) /\ IderCommit(r)

IderAuthTokenChange ==
  /\ IderMounted
  /\ \E a \in AuthTokens \ {iderProps.authToken} :
       LET r == IderRunEffects([IderBegin("IderAuthTokenChange", 0) EXCEPT
                                  !.iderProps.authToken = a], iderProps)
       IN IderFits(r) /\ IderCommit(r)

\* The parent passes another cdrom file (0: none).
IderFileChange ==
  /\ IderMounted
  /\ \E f \in {0, 1} \ {iderProps.cdrom} :
       LET r == IderRunEffects([IderBegin("IderFileChange", f) EXCEPT
                                  !.iderProps.cdrom = f], iderProps)
       IN IderFits(r) /\ IderCommit(r)

\* An AMTIDER handler constructed by the component reports a sector transfer
\* through the sectorStats callback wired to it.
SectorModes == {0, 1, 2}
SectorDevs == {0, 1, 2}
IderSectorStats ==
  /\ component = "ider"
  /\ \E id \in DOMAIN iderHeap : iderHeap[id].kind = "ider"
  /\ \E mode \in SectorModes : \E dev \in SectorDevs : \E len \in 0..MaxSectors :
       LET r == iderSectorStats(IderBegin("IderSectorStats", <<mode, dev, len>>),
                                mode, dev, len)
       IN IderFits(r) /\ IderCommit(r)

IderUnmount ==
  /\ IderMounted
  /\ LET s == [IderBegin("IderUnmount", 0) EXCEPT !.lifecycle = "unmounted"]
         r == iderInitEffectCleanup(s)
     IN IderFits(r) /\ IderCommit(r)

DefaultIderProps ==
  [iderState |-> 0, deviceId |-> "d1", authToken |-> "t1", cdrom |-> 0,
   mpsServer |-> DefaultServer]

\* IDER before its first render, given the props of that render.
IderNew(p) ==
  /\ iderProps = p
  /\ iderRedirectorRef = Null
  /\ iderRef = Null
  /\ prevIderStateRef = 0
  /\ iderHeap = [id \in 1..(MaxIderObjs + InitsPerEvent) |-> NoIderObj]
  /\ iderNextId = 1

IderInit == IderNew(DefaultIderProps)

\* ======================================================================== Sol
SolState ==
  [lifecycle |-> lifecycle, ev |-> ev, evArg |-> evArg, calls |-> calls,
   solProps |-> solProps, SOLstate |-> SOLstate, xterm |-> xterm,
   solRedirectorRef |-> solRedirectorRef, terminalRef |-> terminalRef,
   solDataProcessorRef |-> solDataProcessorRef, termRef |-> termRef,
   solHeap |-> solHeap, solNextId |-> solNextId]

NoSolGraph ==
  [host |-> "", authToken |-> "", sock |-> FALSE, rstate |-> 0, disposed |-> FALSE,
   mode |-> "", server |-> <<>>, port |-> 0, user |-> "", pass |-> "",
   tls |-> 0, tls1only |-> 0]

SolHeld(s) ==
  {s.xterm, s.solRedirectorRef, s.terminalRef, s.solDataProcessorRef, s.termRef}
    \ {Null}

SolCollect(s) ==
  [id \in DOMAIN s.solHeap |->
     IF id \in SolHeld(s) THEN s.solHeap[id]
     ELSE [NoSolGraph EXCEPT !.sock = s.solHeap[id].sock,
                             !.rstate = s.solHeap[id].rstate]]

SolCommit(s) ==
  /\ lifecycle' = s.lifecycle
  /\ ev' = s.ev
  /\ evArg' = s.evArg
  /\ calls' = s.calls
  /\ solProps' = s.solProps
  /\ SOLstate' = s.SOLstate
  /\ xterm' = s.xterm
  /\ solRedirectorRef' = s.solRedirectorRef
  /\ terminalRef' = s.terminalRef
  /\ solDataProcessorRef' = s.solDataProcessorRef
  /\ termRef' = s.termRef
  /\ solHeap' = SolCollect(s)
  /\ solNextId' = s.solNextId
  /\ UNCHANGED <<component, kvmVars, iderVars, termVars, widgetVars>>

SolRedirectorStart(s, id) ==
  Log([s EXCEPT !.solHeap[id].sock = TRUE], "start", id, s.solHeap[id].sock)

SolRedirectorStop(s, id) ==
  Log([s EXCEPT !.solHeap[id].sock = FALSE], "stop", id, s.solHeap[id].sock)

TerminalDispose(s, id) ==
  Log([s EXCEPT !.solHeap[id].disposed = TRUE], "dispose", id, s.solHeap[id].disposed)

\* State setters are no-ops once the component is unmounted.
setSOLstate(s, state) ==
  IF s.lifecycle = "mounted" THEN [s EXCEPT !.SOLstate = state] ELSE s

setXterm(s, term) ==
  IF s.lifecycle = "mounted" THEN [s EXCEPT !.xterm = term] ELSE s

handleClearTerminal(s) ==
  IF s.termRef # Null THEN Log(s, "reset", s.termRef, FALSE) ELSE s

\* The characters of received terminal data: DEL (0x7f) and two others.
DEL == "DEL"
WriteChars == {"a", "b", DEL}
WriteStrings == UNION {[1..n -> WriteChars] : n \in 0..MaxWrite}

TerminalWrite(s, id, str) == Log(s, "write", id, str)

\* Mutant of handleWriteToXterm: replace without the g flag.
handleWriteToXterm_FirstOnly(s, str) ==
  LET filtered == replace(str, <<DEL>>, <<>>)
  IN IF Len(filtered) > 0 /\ s.termRef # Null
     THEN TerminalWrite(s, s.termRef, filtered)
     ELSE s

\* str.replace(/\x7f/g, ''), then termRef.current?.write of a non-empty rest.
handleWriteToXterm(s, str) ==
  LET filtered == SelectSeq(str, LAMBDA ch : ch # DEL)
  IN IF Len(filtered) > 0 /\ s.termRef # Null
     THEN TerminalWrite(s, s.termRef, filtered)
     ELSE s

onTerminalStateChange(s, state) == setSOLstate(s, state)

solCleanUp(s) ==
  [s EXCEPT !.terminalRef = Null, !.solRedirectorRef = Null,
            !.solDataProcessorRef = Null, !.termRef = Null]

solInitEffect(s) ==
  LET id == s.solNextId
      t == [s EXCEPT !.terminalRef = id, !.solRedirectorRef = id,
                     !.solDataProcessorRef = id, !.termRef = id,
                     !.solHeap[id] = [NoSolGraph EXCEPT
                                        !.host = OrEmpty(s.solProps.deviceId),
                                        !.authToken = OrEmpty(s.solProps.authToken),
                                        !.mode = "sol",
                                        !.server = server(s.solProps.mpsServer),
                                        !.port = REDIRECT_PORT],
                     !.solNextId = id + 1]
  IN setXterm(Log(t, "new", id, FALSE), id)

\* Mutant of solInitEffectCleanup: the refs are cleared first.
solInitEffectCleanup_ClearsFirst(s) ==
  LET t == solCleanUp(setXterm(s, Null))
      u == IF t.solRedirectorRef # Null
           THEN SolRedirectorStop(t, t.solRedirectorRef) ELSE t
  IN IF u.termRef # Null THEN TerminalDispose(u, u.termRef) ELSE u

solInitEffectCleanup(s) ==
  LET t == IF s.solRedirectorRef # Null
           THEN SolRedirectorStop(s, s.solRedirectorRef) ELSE s
      u == IF t.termRef # Null THEN TerminalDispose(t, t.termRef) ELSE t
  IN solCleanUp(setXterm(u, Null))

startSOL(s) ==
  IF s.solRedirectorRef # Null THEN SolRedirectorStart(s, s.solRedirectorRef) ELSE s

stopSOL(s) ==
  LET t == IF s.solRedirectorRef # Null
           THEN SolRedirectorStop(s, s.solRedirectorRef) ELSE s
  IN setSOLstate(handleClearTerminal(t), 0)

handleSOLConnect(s) == IF s.SOLstate # 3 THEN startSOL(s) ELSE stopSOL(s)

\* Mutant of solIsConnected: connected (2) counts as ready.
solIsConnected_FromConnected(state) == state >= 2

\* const isConnected = SOLstate === 3
solIsConnected(state) == state = 3

\* What the committed render of Sol shows.
SolRendersTerm == solIsConnected(SOLstate) /\ xterm # Null
SolButtonLabel == IF solIsConnected(SOLstate) THEN "sol.disconnect" ELSE "sol.connect"

SolBegin(name, arg) == [SolState EXCEPT !.ev = name, !.evArg = arg, !.calls = <<>>]
SolMounted == component = "sol" /\ lifecycle = "mounted"
SolFits(s) == s.solNextId <= MaxSolGraphs + 1

SolMount ==
  /\ component = "sol"
  /\ lifecycle = "new"
  /\ LET r == solInitEffect([SolBegin("SolMount", 0) EXCEPT !.lifecycle = "mounted"])
     IN SolFits(r) /\ SolCommit(r)

SolConnectClick ==
  /\ SolMounted
  /\ LET r == handleSOLConnect(SolBegin("SolConnectClick", SOLstate))
     IN SolFits(r) /\ SolCommit(r)

SolDeviceChange ==
  /\ SolMounted
  /\ \E d \in DeviceIds \ {solProps.deviceId} :
       LET s == [SolBegin("SolDeviceChange", 0) EXCEPT !.solProps.deviceId = d]
           r == solInitEffect(solInitEffectCleanup(s))
       IN SolFits(r) /\ SolCommit(r)

SolAuthTokenChange ==
  /\ SolMounted
  /\ \E a \in AuthTokens \ {solProps.authToken} :
       LET s == [SolBegin("SolAuthTokenChange", 0) EXCEPT !.solProps.authToken = a]
           r == solInitEffect(solInitEffectCleanup(s))
       IN SolFits(r) /\ SolCommit(r)

SolMpsServerChange ==
  /\ SolMounted
  /\ \E m \in ChangedServers \ {solProps.mpsServer} :
       LET s == [SolBegin("SolMpsServerChange", 0) EXCEPT !.solProps.mpsServer = m]
           r == solInitEffect(solInitEffectCleanup(s))
       IN SolFits(r) /\ SolCommit(r)

SolUnmount ==
  /\ SolMounted
  /\ LET r == solInitEffectCleanup([SolBegin("SolUnmount", 0) EXCEPT
                                      !.lifecycle = "unmounted"])
     IN SolFits(r) /\ SolCommit(r)

\* The redirector id reports a new connection state through onStateChanged.
SolStateCallback ==
  /\ component = "sol"
  /\ \E id \in 1..(solNextId - 1) : \E st \in 0..3 :
       /\ \/ st > 0 /\ solHeap[id].sock /\ solHeap[id].rstate = st - 1
          \/ st = 0 /\ solHeap[id].rstate # 0
       /\ LET s == [SolBegin("SolStateCallback", st) EXCEPT
                      !.solHeap[id].rstate = st,
                      !.solHeap[id].sock = IF st = 0 THEN FALSE ELSE @]
              r == onTerminalStateChange(s, st)
          IN SolFits(r) /\ SolCommit(r)

\* A data processor the component constructed passes received data to the
\* processDataToXterm callback wired to it.
SolWriteData ==
  /\ component = "sol"
  /\ solNextId > 1
  /\ \E str \in WriteStrings :
       LET r == handleWriteToXterm(SolBegin("SolWriteData", str), str)
       IN SolFits(r) /\ SolCommit(r)

DefaultSolProps ==
  [deviceId |-> "d1", authToken |-> "t1", mpsServer |-> DefaultServer]

\* Sol before its first render, given the props of that render.
SolNew(p) ==
  /\ solProps = p
  /\ SOLstate = 0
  /\ xterm = Null
  /\ solRedirectorRef = Null
  /\ terminalRef = Null
  /\ solDataProcessorRef = Null
  /\ termRef = Null
  /\ solHeap = [id \in 1..(MaxSolGraphs + InitsPerEvent) |-> NoSolGraph]
  /\ solNextId = 1

SolInit == SolNew(DefaultSolProps)

\* ======================================================================= Term
TermState ==
  [lifecycle |-> lifecycle, ev |-> ev, evArg |-> evArg, calls |-> calls,
   termInst |-> termInst, termProps |-> termProps, openedRef |-> openedRef,
   handleKeyPressRef |-> handleKeyPressRef, xterms |-> xterms,
   pendingReads |-> pendingReads]

TermCommit(s) ==
  /\ lifecycle' = s.lifecycle
  /\ ev' = s.ev
  /\ evArg' = s.evArg
  /\ calls' = s.calls
  /\ termInst' = s.termInst
  /\ termProps' = s.termProps
  /\ openedRef' = s.openedRef
  /\ handleKeyPressRef' = s.handleKeyPressRef
  /\ xterms' = s.xterms
  /\ pendingReads' = s.pendingReads
  /\ UNCHANGED <<component, kvmVars, iderVars, solVars, widgetVars>>

\* Text is a sequence of characters, control characters by their names.
ETX == <<"ETX">>
DESTRUCTIVE_BACKSPACE == <<"BS", "SP", "BS">>

\* Functions the parent passes as handleKeyPress, numbered as it creates them:
\* a render passes the function of the render before or a new one.
Callbacks == {1, 2}
NextCallbacks(current) == {h \in Callbacks : h = current \/ h = current + 1}
Xterms == {1, 2}
\* The key data xterm hands over with a DOM key event.
KeyData(ctrlKey, domKey) ==
  CASE domKey = "ArrowUp" -> <<"ESC", "[", "A">>
    [] domKey = "Backspace" -> <<"DEL">>
    [] domKey = "c" -> IF ctrlKey THEN <<"ETX">> ELSE <<"c">>
    [] domKey = "v" -> IF ctrlKey THEN <<"SYN">> ELSE <<"v">>

DomKeys == {"c", "v", "Backspace", "ArrowUp"}
Selections == {<<>>, <<"s", "e", "l">>}
KeyEvents ==
  {[ctrlKey |-> ctrl, domKey |-> k, key |-> KeyData(ctrl, k), selection |-> sel] :
     ctrl \in BOOLEAN, k \in DomKeys, sel \in Selections}
ClipboardTexts == {<<>>, <<"p", "w">>}

TermLog(s, op, id, arg) == [s EXCEPT !.calls = Append(@, <<op, id, arg>>)]

\* Mutant of forward: the data is handed over twice.
forward_Twice(s, inst, data) ==
  TermLog(TermLog(s, "handleKeyPress", s.handleKeyPressRef[inst], data),
          "handleKeyPress", s.handleKeyPressRef[inst], data)

\* handleKeyPressRef.current(data), in the handler of Term instance inst.
forward(s, inst, data) ==
  TermLog(s, "handleKeyPress", s.handleKeyPressRef[inst], data)

\* Mutant of onKey: Ctrl+C sends the interrupt whether or not text is selected.
onKey_AlwaysInterrupts(s, h, e) ==
  IF e.ctrlKey /\ e.domKey = "c" THEN forward(s, h.inst, ETX)
  ELSE IF e.ctrlKey /\ e.domKey = "v"
  THEN [TermLog(s, "readText", h.inst, <<>>) EXCEPT !.pendingReads = Append(@, h.inst)]
  ELSE forward(s, h.inst, IF e.domKey = "Backspace" THEN DESTRUCTIVE_BACKSPACE ELSE e.key)

\* Mutant of onKey: Backspace is forwarded as the raw key.
onKey_RawBackspace(s, h, e) ==
  IF e.ctrlKey /\ e.domKey = "c"
  THEN IF e.selection # <<>> THEN TermLog(s, "writeText", h.inst, e.selection)
       ELSE forward(s, h.inst, ETX)
  ELSE IF e.ctrlKey /\ e.domKey = "v"
  THEN [TermLog(s, "readText", h.inst, <<>>) EXCEPT !.pendingReads = Append(@, h.inst)]
  ELSE forward(s, h.inst, e.key)

\* Mutant of onKey: Ctrl+V forwards the key besides reading the clipboard.
onKey_ForwardsV(s, h, e) ==
  IF e.ctrlKey /\ e.domKey = "c"
  THEN IF e.selection # <<>> THEN TermLog(s, "writeText", h.inst, e.selection)
       ELSE forward(s, h.inst, ETX)
  ELSE IF e.ctrlKey /\ e.domKey = "v"
  THEN forward([TermLog(s, "readText", h.inst, <<>>) EXCEPT
                  !.pendingReads = Append(@, h.inst)], h.inst, e.key)
  ELSE forward(s, h.inst, IF e.domKey = "Backspace" THEN DESTRUCTIVE_BACKSPACE ELSE e.key)

\* The key handler h, registered with xterm.onKey by Term instance h.inst.
onKey(s, h, e) ==
  IF e.ctrlKey /\ e.domKey = "c"
  THEN IF e.selection # <<>> THEN TermLog(s, "writeText", h.inst, e.selection)
       ELSE forward(s, h.inst, ETX)
  ELSE IF e.ctrlKey /\ e.domKey = "v"
  THEN [TermLog(s, "readText", h.inst, <<>>) EXCEPT !.pendingReads = Append(@, h.inst)]
  ELSE forward(s, h.inst, IF e.domKey = "Backspace" THEN DESTRUCTIVE_BACKSPACE ELSE e.key)

\* Mutant of handleKeyPressRefEffect: the ref keeps the first callback.
handleKeyPressRefEffect_Stale(s) == s

\* useEffect(() => { handleKeyPressRef.current = handleKeyPress }, [handleKeyPress])
handleKeyPressRefEffect(s) ==
  [s EXCEPT !.handleKeyPressRef[s.termInst] = s.termProps.handleKeyPress]

\* The closure handed to xterm.onKey: it reaches the refs of its Term instance.
Handler(s) == [inst |-> s.termInst]

\* Mutant of mountEffect: no openedRef guard.
mountEffect_Unguarded(s, reattach) ==
  LET x == s.termProps.xterm
  IN IF x = Null THEN s
     ELSE LET t == [s EXCEPT !.openedRef = TRUE,
                             !.xterms[x].opens = @ + 1,
                             !.xterms[x].element =
                                IF @ = 0 \/ reattach THEN s.termInst ELSE @,
                             !.xterms[x].handlers = Append(@, Handler(s))]
          IN TermLog(TermLog(TermLog(TermLog(TermLog(t,
               "open", x, <<>>), "clear", x, <<>>), "reset", x, <<>>),
               "focus", x, <<>>), "onKey", x, <<>>)

\* The mount effect (dependency: xterm). The DOM node of the instance exists
\* whenever effects run. xterm.open on a terminal that is open already is the
\* library's business: it moves the terminal to the new node (reattach) or
\* leaves it in the node it was opened in first.
mountEffect(s, reattach) ==
  LET x == s.termProps.xterm
  IN IF x = Null \/ s.openedRef THEN s
     ELSE LET t == [s EXCEPT !.openedRef = TRUE,
                             !.xterms[x].opens = @ + 1,
                             !.xterms[x].element =
                                IF @ = 0 \/ reattach THEN s.termInst ELSE @,
                             !.xterms[x].handlers = Append(@, Handler(s))]
          IN TermLog(TermLog(TermLog(TermLog(TermLog(t,
               "open", x, <<>>), "clear", x, <<>>), "reset", x, <<>>),
               "focus", x, <<>>), "onKey", x, <<>>)

\* xterm delivers a key event to every handler registered with onKey.
RECURSIVE FireAll(_, _, _)
FireAll(s, handlers, e) ==
  IF handlers = <<>> THEN s
  ELSE FireAll(onKey(s, Head(handlers), e), Tail(handlers), e)

TermBegin(name, arg) == [TermState EXCEPT !.ev = name, !.evArg = arg, !.calls = <<>>]
TermMounted == component = "term" /\ lifecycle = "mounted"
TermFits(s) == Len(s.pendingReads) <= MaxReads

\* The parent renders a Term: a new instance, on a terminal of its choice.
TermMount ==
  /\ component = "term"
  /\ lifecycle \in {"new", "unmounted"}
  /\ termInst < MaxTerms
  /\ \E h \in NextCallbacks(termProps.handleKeyPress) :
     \E x \in Xterms \cup {Null} : \E reattach \in BOOLEAN :
       LET s == [TermBegin("TermMount", 0) EXCEPT
                   !.lifecycle = "mounted",
                   !.termInst = termInst + 1,
                   !.termProps = [handleKeyPress |-> h, xterm |-> x],
                   !.openedRef = FALSE,
                   !.handleKeyPressRef[termInst + 1] = h]
           r == mountEffect(handleKeyPressRefEffect(s), reattach)
       IN TermFits(r) /\ TermCommit(r)

\* The parent renders the mounted Term again, with the same or other props.
TermRerender ==
  /\ TermMounted
  /\ \E h \in NextCallbacks(termProps.handleKeyPress) :
     \E x \in Xterms \cup {Null} : \E reattach \in BOOLEAN :
       LET s == [TermBegin("TermRerender", 0) EXCEPT
                   !.termProps = [handleKeyPress |-> h, xterm |-> x]]
           t == IF h # termProps.handleKeyPress THEN handleKeyPressRefEffect(s) ELSE s
           r == IF x # termProps.xterm THEN mountEffect(t, reattach) ELSE t
       IN TermFits(r) /\ TermCommit(r)

\* Neither effect of Term returns a cleanup.
TermUnmount ==
  /\ TermMounted
  /\ LET r == [TermBegin("TermUnmount", 0) EXCEPT !.lifecycle = "unmounted"]
     IN TermFits(r) /\ TermCommit(r)

\* A key is pressed in a terminal that sits in the DOM node of the mounted Term.
TermKey ==
  /\ TermMounted
  /\ \E x \in Xterms : \E e \in KeyEvents :
       /\ xterms[x].element = termInst
       /\ LET r == FireAll(TermBegin("TermKey", e), xterms[x].handlers, e)
          IN TermFits(r) /\ TermCommit(r)

\* navigator.clipboard.readText() resolves.
ClipboardResolve ==
  /\ component = "term"
  /\ \E i \in 1..Len(pendingReads) : \E text \in ClipboardTexts :
       LET s == [TermBegin("ClipboardResolve", text) EXCEPT
                   !.pendingReads = RemoveAt(@, i)]
           r == forward(s, pendingReads[i], text)
       IN TermFits(r) /\ TermCommit(r)

\* navigator.clipboard.readText() rejects.
ClipboardReject ==
  /\ component = "term"
  /\ \E i \in 1..Len(pendingReads) :
       LET s == [TermBegin("ClipboardReject", 0) EXCEPT
                   !.pendingReads = RemoveAt(@, i)]
           r == TermLog(s, "console.error", pendingReads[i], <<>>)
       IN TermFits(r) /\ TermCommit(r)

NoXterm == [opens |-> 0, handlers |-> <<>>, element |-> 0]

TermInit ==
  /\ termInst = 0
  /\ termProps = [handleKeyPress |-> Null, xterm |-> Null]
  /\ openedRef = FALSE
  /\ handleKeyPressRef = [i \in 1..(MaxTerms + 1) |-> Null]
  /\ xterms = [x \in Xterms |-> NoXterm]
  /\ pendingReads = <<>>


\* ================================================= widgets without effects
WidgetState ==
  [ev |-> ev, evArg |-> evArg, calls |-> calls, selectedFile |-> selectedFile,
   attachIderState |-> attachIderState, value |-> value, headerState |-> headerState]

WidgetCommit(s) ==
  /\ ev' = s.ev
  /\ evArg' = s.evArg
  /\ calls' = s.calls
  /\ selectedFile' = s.selectedFile
  /\ attachIderState' = s.attachIderState
  /\ value' = s.value
  /\ headerState' = s.headerState
  /\ UNCHANGED <<component, lifecycle, kvmVars, iderVars, solVars, termVars>>

WidgetBegin(name, arg) == [WidgetState EXCEPT !.ev = name, !.evArg = arg, !.calls = <<>>]
Widgets == component = "widgets" /\ lifecycle = "mounted"

\* ------------------------------------------------------- AttachDiskImage
Undefined == "undefined"
FileNames == {"a.iso", "b.iso"}

\* event.target.files: null, or a list of any length.
FileInputs ==
  {[isNull |-> TRUE, list |-> <<>>]}
    \cup {[isNull |-> FALSE, list |-> l] :
            l \in {<<>>, <<"a.iso">>, <<"b.iso">>, <<"b.iso", "a.iso">>}}

\* list[i] of JavaScript, counted from 0: undefined past the end.
At(list, i) == IF i + 1 <= Len(list) THEN list[i + 1] ELSE Undefined

\* x ?? d
Coalesce(x, d) == IF x \in {NullProp, Undefined} THEN d ELSE x

\* Mutant of handleFileChange: the file is stored without "?? null".
handleFileChange_NoCoalesce(s, files) ==
  LET file == IF ~files.isNull THEN At(files.list, 0) ELSE NullProp
  IN [s EXCEPT !.selectedFile = file]

handleFileChange(s, files) ==
  LET file == IF ~files.isNull THEN At(files.list, 0) ELSE NullProp
  IN [s EXCEPT !.selectedFile = Coalesce(file, NullProp)]

handleButtonClick(s) ==
  [s EXCEPT !.attachIderState = IF s.attachIderState = 0 THEN 1 ELSE 0]

\* disabled={selectedFile === null}
AttachButtonDisabled == selectedFile = NullProp

FileChange ==
  /\ Widgets
  /\ \E files \in FileInputs :
       WidgetCommit(handleFileChange(WidgetBegin("FileChange", files), files))

\* A disabled button gets no click.
ButtonClick ==
  /\ Widgets
  /\ ~AttachButtonDisabled
  /\ WidgetCommit(handleButtonClick(WidgetBegin("ButtonClick", 0)))

\* --------------------------------------- EncodingOptions and ConnectButton
NaN == -1    \* parseInt of a text that starts with no digit
Digits == <<"0", "1", "2", "3", "4", "5", "6", "7", "8", "9">>
IsDigit(ch) == \E d \in 1..Len(Digits) : Digits[d] = ch
DigitOf(ch) == (CHOOSE d \in 1..Len(Digits) : Digits[d] = ch) - 1

\* parseInt(text): the number its leading digits write, NaN when it has none.
RECURSIVE ParseDigits(_, _)
ParseDigits(text, n) ==
  IF text = <<>> \/ ~IsDigit(Head(text)) THEN n
  ELSE ParseDigits(Tail(text), n * 10 + DigitOf(Head(text)))

parseInt(text) ==
  IF text = <<>> \/ ~IsDigit(Head(text)) THEN NaN ELSE ParseDigits(text, 0)

\* e.target.value: the values of the two options, and what a change event
\* dispatched by a script may carry.
SelectValues == {<<"1">>, <<"2">>, <<"1", "0">>, <<"2", "x">>, <<>>}
HeaderStates == -1..4

\* Mutant of onEncodingChange: the callback gets the value shown before.
onEncodingChange_OldValue(s, text) ==
  LET newValue == parseInt(text)
  IN [s EXCEPT !.value = newValue,
               !.calls = Append(@, <<"changeEncoding", 0, s.value>>)]

onEncodingChange(s, text) ==
  LET newValue == parseInt(text)
  IN [s EXCEPT !.value = newValue,
               !.calls = Append(@, <<"changeEncoding", 0, newValue>>)]

\* Mutant of isConnected: the test Sol makes (state 3).
isConnected_Ready(state) == state = 3

\* Mutant of isConnected: connecting counts as connected.
isConnected_FromConnecting(state) == state >= 1

\* const isConnected = getConnectState() === 2
isConnected(state) == state = 2

\* Mutant of getButtonText: every state but 0 shows the disconnect label.
getButtonText_TwoLabels(kvmstate_) ==
  IF kvmstate_ = 0 THEN "kvm.connect" ELSE "kvm.disconnect"

getButtonText(kvmstate_) ==
  IF kvmstate_ = 1 THEN "kvm.connecting"
  ELSE IF kvmstate_ = 2 THEN "kvm.disconnect"
  ELSE "kvm.connect"

\* A disabled select gets no change.
EncodingSelect ==
  /\ Widgets
  /\ ~isConnected(headerState)
  /\ \E text \in SelectValues :
       WidgetCommit(onEncodingChange(WidgetBegin("EncodingSelect", text), text))

\* The parent renders the header with another kvmstate.
HeaderRender ==
  /\ Widgets
  /\ \E st \in HeaderStates :
       WidgetCommit([WidgetBegin("HeaderRender", st) EXCEPT !.headerState = st])

WidgetInit ==
  /\ selectedFile = NullProp
  /\ attachIderState = 0
  /\ value = 1
  /\ headerState = 0


Init ==
  /\ component \in {"kvm", "ider", "sol"}
  /\ lifecycle = "new"
  /\ ev = "none"
  /\ evArg = 0
  /\ calls = <<>>
  /\ KvmInit
  /\ (component # "kvm" => ctxAvail)
  /\ IderInit
  /\ SolInit
  /\ TermInit
  /\ WidgetInit

Next ==
  \/ Mount
  \/ ConnectClick
  \/ ChangeEncoding
  \/ DeviceChange
  \/ AuthTokenChange
  \/ Unmount
  \/ StateCallback
  \/ RedirectorError
  \/ Tick
  \/ TimerFire
  \/ IderMount
  \/ IderStateChange
  \/ IderDeviceChange
  \/ IderAuthTokenChange
  \/ IderFileChange
  \/ IderUnmount
  \/ SolMount
  \/ SolConnectClick
  \/ SolDeviceChange
  \/ SolAuthTokenChange
  \/ SolUnmount
  \/ SolStateCallback

Spec == Init /\ [][Next]_vars

\* ---------------------------------------------------- DOM events to calls
\* A mouse event on the KVM canvas.
MouseEvents == {"mousemove", "mousedown", "mouseup"}
MouseEvent ==
  /\ KvmMounted
  /\ \E kind \in MouseEvents :
       LET s == Begin("MouseEvent", kind)
           r == IF s.mouseHelperRef # Null
                THEN Log(s, kind, s.mouseHelperRef, FALSE) ELSE s
       IN Fits(r) /\ KvmCommit(r)

\* Term under every parent, and KVM with the mouse events on its canvas.
InputInit ==
  /\ component \in {"term", "kvm"}
  /\ lifecycle = "new"
  /\ ev = "none"
  /\ evArg = 0
  /\ calls = <<>>
  /\ KvmInit
  /\ IderInit
  /\ SolInit
  /\ TermInit
  /\ WidgetInit

InputNext ==
  \/ TermMount
  \/ TermRerender
  \/ TermUnmount
  \/ TermKey
  \/ ClipboardResolve
  \/ ClipboardReject
  \/ Mount
  \/ ConnectClick
  \/ MouseEvent
  \/ Unmount

InputSpec == InputInit /\ [][InputNext]_vars

\* ------------------------------------------------ the widgets on their own
WidgetSpecInit ==
  /\ component = "widgets"
  /\ lifecycle = "mounted"
  /\ ev = "none"
  /\ evArg = 0
  /\ calls = <<>>
  /\ KvmInit
  /\ IderInit
  /\ SolInit
  /\ TermInit
  /\ WidgetInit

WidgetNext ==
  \/ FileChange
  \/ ButtonClick
  \/ EncodingSelect
  \/ HeaderRender

WidgetSpec == WidgetSpecInit /\ [][WidgetNext]_vars

\* ------------------------------------------- IDER with its sector callbacks
\* IDER alone, with the sector callbacks of the handlers it constructed.
IderSpecInit == Init /\ component = "ider"

IderNext ==
  \/ IderMount
  \/ IderStateChange
  \/ IderDeviceChange
  \/ IderAuthTokenChange
  \/ IderFileChange
  \/ IderUnmount
  \/ IderSectorStats

IderSpec == IderSpecInit /\ [][IderNext]_vars

\* ------------------------------------------------ configuration of a mount
\* The components mounted with every combination of the props their
\* redirector configuration is computed from, null ones included.
ConfigInit ==
  /\ component \in {"kvm", "ider", "sol"}
  /\ lifecycle = "new"
  /\ ev = "none"
  /\ evArg = 0
  /\ calls = <<>>
  /\ \E d \in {"d1", NullProp} : \E a \in {"t1", NullProp} :
       \E m \in MpsServers : \E t \in MouseDebounceTimes :
         /\ IF component = "kvm"
            THEN KvmNew([deviceId |-> d, authToken |-> "t1", mpsServer |-> m,
                         mouseDebounceTime |-> t])
                 /\ a = "t1"
            ELSE KvmNew(DefaultKvmProps) /\ ctxAvail /\ t = MIN_DEBOUNCE_TIME
         /\ IF component = "ider"
            THEN IderNew([DefaultIderProps EXCEPT !.deviceId = d, !.authToken = a,
                                                 !.mpsServer = m])
            ELSE IderNew(DefaultIderProps)
         /\ IF component = "sol"
            THEN SolNew([deviceId |-> d, authToken |-> a, mpsServer |-> m])
            ELSE SolNew(DefaultSolProps)
  /\ TermInit
  /\ WidgetInit

ConfigNext ==
  \/ Mount
  \/ ConnectClick
  \/ RedirectorError
  \/ Unmount
  \/ IderMount
  \/ IderStateChange
  \/ SolMount
  \/ SolConnectClick

ConfigSpec == ConfigInit /\ [][ConfigNext]_vars

\* ------------------------------------------------ changes of every prop
\* KVM and Sol under changes of each prop their initialization depends on.
PropsInit ==
  /\ component \in {"kvm", "sol"}
  /\ lifecycle = "new"
  /\ ev = "none"
  /\ evArg = 0
  /\ calls = <<>>
  /\ KvmInit
  /\ ctxAvail
  /\ IderInit
  /\ SolInit
  /\ TermInit
  /\ WidgetInit

PropsNext ==
  \/ Mount
  \/ ConnectClick
  \/ StateCallback
  \/ ChangeEncoding
  \/ AuthTokenChange
  \/ MpsServerChange
  \/ MouseDebounceTimeChange
  \/ Unmount
  \/ SolMount
  \/ SolConnectClick
  \/ SolStateCallback
  \/ SolDeviceChange
  \/ SolAuthTokenChange
  \/ SolMpsServerChange
  \/ SolUnmount

PropsSpec == PropsInit /\ [][PropsNext]_vars

\* ------------------------------------------- reinitialization of KVM
\* KVM under prop changes and redirector errors, in any order.
ReinitInit ==
  /\ component = "kvm"
  /\ lifecycle = "new"
  /\ ev = "none"
  /\ evArg = 0
  /\ calls = <<>>
  /\ KvmInit
  /\ IderInit
  /\ SolInit
  /\ TermInit
  /\ WidgetInit

ReinitNext ==
  \/ Mount
  \/ ConnectClick
  \/ StateCallback
  \/ DeviceChange
  \/ AuthTokenChange
  \/ MpsServerChange
  \/ RedirectorError

ReinitSpec == ReinitInit /\ [][ReinitNext]_vars

\* ------------------------------------------- KVM driven by its Header
\* A change event of the encoding select the Header renders: the select is
\* disabled while isConnected, and onEncodingChange passes the parsed value
\* through DesktopSettings' changeEncoding to changeDesktopSettings.
HeaderEncodingSelect ==
  /\ KvmMounted
  /\ ~isConnected(kvmstate)
  /\ \E text \in {<<"1">>, <<"2">>} :
       LET e == parseInt(text)
           r == RunEffects(changeDesktopSettings(Begin("HeaderEncodingSelect", e),
                                                 Committed, e),
                           Committed)
       IN Fits(r) /\ KvmCommit(r)

HeaderInit ==
  /\ component = "kvm"
  /\ lifecycle = "new"
  /\ ev = "none"
  /\ evArg = 0
  /\ calls = <<>>
  /\ KvmInit
  /\ IderInit
  /\ SolInit
  /\ TermInit
  /\ WidgetInit

\* The clicks and selections of the Header, with the reports and errors of
\* the redirectors, prop changes and the unmount.
HeaderNext ==
  \/ Mount
  \/ ConnectClick
  \/ HeaderEncodingSelect
  \/ StateCallback
  \/ RedirectorError
  \/ DeviceChange
  \/ AuthTokenChange
  \/ Unmount

HeaderSpec == HeaderInit /\ [][HeaderNext]_vars

\* ------------------------------------------------ Sol with terminal data
\* Sol with the data its data processors deliver.
WriteInit == Init /\ component = "sol"

WriteNext ==
  \/ SolMount
  \/ SolConnectClick
  \/ SolDeviceChange
  \/ SolUnmount
  \/ SolWriteData

WriteSpec == WriteInit /\ [][WriteNext]_vars

\* ===================================================================== claims
CallsOn(cs, op, id) == {i \in DOMAIN cs : cs[i][1] = op /\ cs[i][2] = id}
CallsOf(cs, op) == {i \in DOMAIN cs : cs[i][1] = op}
HeldRefs ==
  {moduleRef, dataProcessorRef, redirectorRef, mouseHelperRef, keyboardRef} \ {Null}
AllRefsAre(s, id) ==
  /\ s.moduleRef = id /\ s.dataProcessorRef = id /\ s.redirectorRef = id
  /\ s.mouseHelperRef = id /\ s.keyboardRef = id

\* C1: when deviceId changes while kvmstate is 2, stop is invoked exactly once
\* on the redirector held before the change and UnGrabKeyInput exactly once on
\* the keyboard helper held before the change, both before any handler graph
\* is constructed for the new deviceId.
C1_DeviceChangeStopsPrior ==
  [][(ev' = "DeviceChange" /\ kvmstate = 2 /\ redirectorRef # Null)
       => /\ Cardinality(CallsOn(calls', "stop", redirectorRef)) = 1
          /\ Cardinality(CallsOn(calls', "UnGrabKeyInput", keyboardRef)) = 1
          /\ \A i \in CallsOf(calls', "new") :
               /\ \A j \in CallsOn(calls', "stop", redirectorRef) : j < i
               /\ \A j \in CallsOn(calls', "UnGrabKeyInput", keyboardRef) : j < i]_vars

\* C2: an encoding change in state 2 sets the settings-changed flag and stops
\* the held redirector; a report of state 0 that finds the flag set clears it
\* and schedules exactly one timer, starting nothing; the timer's start comes
\* no earlier than 2000 ms after it was scheduled.
C2_ConnectedEncodingChange ==
  [][/\ (ev' = "ChangeEncoding" /\ kvmstate = 2)
          => /\ desktopSettingsChangeRef'
             /\ redirectorRef # Null
             /\ CallsOn(calls', "stop", redirectorRef) # {}
     /\ (ev' = "StateCallback" /\ evArg' = 0 /\ desktopSettingsChangeRef)
          => /\ ~desktopSettingsChangeRef'
             /\ Cardinality(CallsOf(calls', "setTimeout")) = 1
             /\ Len(timers') = Len(timers) + 1
             /\ timers'[Len(timers')] = <<2000, 0>>
             /\ CallsOf(calls', "start") = {}
     /\ (ev' = "TimerFire") => evArg' >= 2000]_vars

C2_Witness ==
  /\ ev = "TimerFire"
  /\ redirectorRef # Null
  /\ CallsOn(calls, "start", redirectorRef) # {}

\* C3: an encoding change in state 0 sets encodingOption and the bpp of the
\* held desktop handler to the new value in that step, leaves the
\* settings-changed flag false, and invokes no stop, no start and no timer.
C3_DisconnectedEncodingChange ==
  [][(ev' = "ChangeEncoding" /\ kvmstate = 0)
       => /\ encodingOption' = evArg'
          /\ (moduleRef' # Null => heap'[moduleRef'].bpp = evArg')
          /\ ~desktopSettingsChangeRef'
          /\ CallsOf(calls', "stop") = {}
          /\ CallsOf(calls', "start") = {}
          /\ CallsOf(calls', "setTimeout") = {}
          /\ timers' = timers]_vars

C3_Witness ==
  /\ ev = "ChangeEncoding"
  /\ kvmstate = 0
  /\ encodingOption = 2
  /\ moduleRef # Null
  /\ heap[moduleRef].bpp = 2

\* A step in which stopKVM ran.
StopKVMStep ==
  \/ ev' \in {"Unmount", "DeviceChange"}
  \/ ev' \in {"ConnectClick", "ChangeEncoding"} /\ kvmstate = 2

\* C6 as claimed: after stopKVM none of the five references is held.
C6_StopLeavesNothingHeld ==
  [][StopKVMStep => AllRefsAre(KvmState', Null)]_vars

\* C6 as amended: after stopKVM none of the five handlers held before it is
\* still held; with a canvas context all five references hold the handlers of
\* one graph constructed by the stop's reinitialization, without one they
\* are all none.
C6_StopReplacesHandlers ==
  [][StopKVMStep
       => /\ HeldRefs' \cap HeldRefs = {}
          /\ IF ctxRef' THEN /\ AllRefsAre(KvmState', nextId' - 1)
                             /\ nextId' > nextId
                             /\ ~heap'[nextId' - 1].sock
                        ELSE AllRefsAre(KvmState', Null)]_vars

C6_Witness ==
  /\ ev = "ConnectClick"
  /\ evArg = 2
  /\ CallsOf(calls, "stop") # {}
  /\ AllRefsAre(KvmState, nextId - 1)

\* C7 as claimed: on an error of the held redirector KVM invokes stop on it and
\* then constructs a fresh handler graph.
C7_ErrorStopsThenReinit ==
  [][(ev' = "RedirectorError" /\ evArg' = redirectorRef)
       => /\ CallsOn(calls', "stop", redirectorRef) # {}
          /\ CallsOf(calls', "new") # {}]_vars

\* C7 as amended: on every error of the held redirector KVM clears the five
\* references without invoking stop and constructs a fresh handler graph from
\* the init stored in initRef, however many errors came before.
C7_ErrorReinitWithoutStop ==
  [][(ev' = "RedirectorError" /\ evArg' = redirectorRef)
       => /\ CallsOf(calls', "stop") = {}
          /\ heap'[redirectorRef].sock = heap[redirectorRef].sock
          /\ nextId' = nextId + 1
          /\ AllRefsAre(KvmState', nextId)
          /\ heap'[nextId].host = initRef.deviceId
          /\ heap'[nextId].authToken = initRef.authToken
          /\ heap'[nextId].bpp = initRef.encodingOption
          /\ ~heap'[nextId].sock]_vars

C7_Witness ==
  /\ ev = "RedirectorError"
  /\ redirectorRef = nextId - 1
  /\ redirectorRef >= 3
  /\ evArg = redirectorRef - 1

\* C8: a scheduled restart is never cancelled (not by unmount, not by a
\* deviceId change): a timer leaves the pending set only by firing, and
\* when it fires it invokes start on the redirector and GrabKeyInput on the
\* keyboard helper held at that moment.
C8_TimerNeverCancelled ==
  [][/\ Len(timers') < Len(timers) => ev' = "TimerFire"
     /\ ev' \in {"Unmount", "DeviceChange"} => timers' = timers
     /\ ev' = "TimerFire"
          => /\ Len(timers') = Len(timers) - 1
             /\ calls' = (IF redirectorRef # Null
                          THEN <<<<"start", redirectorRef, heap[redirectorRef].sock>>>>
                          ELSE <<>>)
                         \o (IF keyboardRef # Null
                             THEN <<<<"GrabKeyInput", keyboardRef, heap[keyboardRef].grabbed>>>>
                             ELSE <<>>)]_vars

C8_Witness ==
  /\ ev = "TimerFire"
  /\ lifecycle = "unmounted"
  /\ CallsOf(calls, "start") # {}
  /\ CallsOf(calls, "GrabKeyInput") # {}

\* C9: under every interleaving of connect clicks, state callbacks and the
\* reconnect timer, KVM never invokes start on a redirector whose socket is
\* open (started and not stopped), and never GrabKeyInput on a keyboard
\* helper that is grabbed already.
C9_NoDuplicateStartOrGrab ==
  component = "kvm"
    => \A i \in DOMAIN calls :
         calls[i][1] \in {"start", "GrabKeyInput"} => ~calls[i][3]

\* C4: whenever the iderState prop changes from 0 to 1, IDER constructs an
\* AMTIDER handler and invokes start on its redirector.
C4_EveryStartStarts ==
  [][(ev' = "IderStateChange" /\ iderProps.iderState = 0 /\ iderProps'.iderState = 1)
       => /\ CallsOf(calls', "newAMTIDER") # {}
          /\ CallsOf(calls', "start") # {}
          /\ iderRef' # Null
          /\ iderRedirectorRef' # Null
          /\ iderHeap'[iderRedirectorRef'].sock]_vars

\* C5: IDER never discards a redirector on which start was invoked without
\* invoking stop on it first: every redirector whose socket is open is the
\* one the component holds.
C5_NoStartedRedirectorDiscarded ==
  \A id \in DOMAIN iderHeap : iderHeap[id].sock => iderRedirectorRef = id

\* C10 as claimed: kvmstate and SOLstate change only inside the redirector's
\* state-change callback.
C10_StateOnlyFromCallback ==
  [][/\ kvmstate' # kvmstate => ev' = "StateCallback"
     /\ SOLstate' # SOLstate => ev' = "SolStateCallback"]_vars

\* C10 as amended: kvmstate changes only inside the redirector's state-change
\* callback, to the reported state; SOLstate changes only inside that
\* callback, to the reported state, or in stopSOL (a connect-button click in
\* state 3), which sets it to 0.
C10_StateFromCallbackOrStopSOL ==
  [][/\ kvmstate' # kvmstate => (ev' = "StateCallback" /\ kvmstate' = evArg')
     /\ SOLstate' # SOLstate
          => \/ ev' = "SolStateCallback" /\ SOLstate' = evArg'
             \/ ev' = "SolConnectClick" /\ SOLstate = 3 /\ SOLstate' = 0]_vars

C10_Witness ==
  /\ ev = "SolConnectClick"
  /\ evArg = 3
  /\ SOLstate = 0
  /\ CallsOf(calls, "stop") # {}

\* The calls of a log without the state the callee was in.
Ops(cs) == [i \in DOMAIN cs |-> <<cs[i][1], cs[i][2]>>]

\* C11: a connect-button click acts on the state of the render it was made
\* in: in state 0 it invokes start on the held redirector and GrabKeyInput on
\* the held keyboard helper and neither stop nor UnGrabKeyInput; in state 1 it
\* invokes nothing; in state 2 it invokes stop and UnGrabKeyInput once each on
\* the held handlers, then cleans up and constructs a new handler graph.
C11_ConnectClickActsOnState ==
  [][ev' = "ConnectClick"
       => /\ kvmstate = 0
               => /\ Ops(calls') =
                       (IF redirectorRef # Null
                        THEN <<<<"start", redirectorRef>>>> ELSE <<>>)
                       \o (IF keyboardRef # Null
                           THEN <<<<"GrabKeyInput", keyboardRef>>>> ELSE <<>>)
                  /\ redirectorRef # Null => heap'[redirectorRef].sock
                  /\ keyboardRef # Null => heap'[keyboardRef].grabbed
                  /\ HeldRefs' = HeldRefs
          /\ kvmstate = 1
               => /\ calls' = <<>>
                  /\ HeldRefs' = HeldRefs
                  /\ heap' = heap
          /\ kvmstate = 2
               => /\ redirectorRef # Null /\ keyboardRef # Null
                  /\ Ops(calls') = <<<<"stop", redirectorRef>>,
                                     <<"UnGrabKeyInput", keyboardRef>>,
                                     <<"clearRect", Null>>,
                                     <<"new", nextId>>>>
                  /\ AllRefsAre(KvmState', nextId)
          /\ kvmstate' = kvmstate]_vars

C11_Witness ==
  /\ ev = "ConnectClick"
  /\ evArg = 0
  /\ redirectorRef # Null
  /\ Ops(calls) = <<<<"start", redirectorRef>>, <<"GrabKeyInput", keyboardRef>>>>
  /\ heap[redirectorRef].sock
  /\ heap[keyboardRef].grabbed

\* C12: for every configured mouseDebounceTime m, the debounce value of the
\* mouse helper KVM holds is 200 when m < 200 and m itself when m >= 200.
C12_DebounceFloor ==
  (component = "kvm" /\ mouseHelperRef # Null)
    => /\ props.mouseDebounceTime < 200 => heap[mouseHelperRef].debounceTime = 200
       /\ props.mouseDebounceTime >= 200
            => heap[mouseHelperRef].debounceTime = props.mouseDebounceTime

C12_Witness ==
  /\ component = "kvm"
  /\ mouseHelperRef # Null
  /\ props.mouseDebounceTime = 199
  /\ heap[mouseHelperRef].debounceTime = 200

\* The configuration g of a redirector built from deviceId and mpsServer.
ConfigTolerates(g, deviceId, mpsServer) ==
  /\ deviceId = NullProp => g.host = ""
  /\ mpsServer = NullServer => g.server = <<>>
  /\ g.port = 16994
  /\ g.user = "" /\ g.pass = ""
  /\ g.tls = 0 /\ g.tls1only = 0

\* C20: in KVM, Sol and IDER the first render constructs a redirector
\* (in KVM once the canvas context is there) whose configuration has host ""
\* for a null deviceId and server "" for a null mpsServer, with port 16994,
\* empty user and pass and tls flags 0.
C20_NullPropsTolerated ==
  [][/\ ev' = "Mount"
          => (ctxAvail
                => /\ redirectorRef' # Null
                   /\ ConfigTolerates(heap'[redirectorRef'], props.deviceId,
                                      props.mpsServer))
     /\ ev' = "IderMount"
          => /\ iderRedirectorRef' # Null
             /\ ConfigTolerates(iderHeap'[iderRedirectorRef'], iderProps.deviceId,
                                iderProps.mpsServer)
     /\ ev' = "SolMount"
          => /\ solRedirectorRef' # Null
             /\ ConfigTolerates(solHeap'[solRedirectorRef'], solProps.deviceId,
                                solProps.mpsServer)]_vars

C20_Witness ==
  /\ ev = "SolMount"
  /\ solProps.deviceId = NullProp
  /\ solProps.mpsServer = NullServer
  /\ solRedirectorRef # Null
  /\ solHeap[solRedirectorRef].host = ""
  /\ solHeap[solRedirectorRef].server = <<>>
  /\ solHeap[solRedirectorRef].port = 16994

\* The four transfer counters of the AMTIDER handler id.
Counters(h, id) ==
  <<h[id].floppyRead, h[id].floppyWrite, h[id].cdromRead, h[id].cdromWrite>>

\* The counter a callback with this mode and device selects, and its sector size.
CounterOf(mode, dev) ==
  IF mode = 1 THEN (IF dev = 0 THEN 1 ELSE 3) ELSE (IF dev = 0 THEN 2 ELSE 4)
SectorSize(dev) == IF dev = 0 THEN 512 ELSE 2048

\* C13 as claimed: every sector callback delivered while a handler is held
\* changes exactly one counter, the one its mode and device select, by
\* len*512 (floppy) or len*2048 (CD-ROM).
C13_ExactlyOneCounterChanges ==
  [][(ev' = "IderSectorStats" /\ iderRef # Null)
       => LET k == CounterOf(evArg'[1], evArg'[2])
              old == Counters(iderHeap, iderRef)
              new == Counters(iderHeap', iderRef)
          IN /\ {i \in 1..4 : new[i] # old[i]} = {k}
             /\ new[k] = old[k] + evArg'[3] * SectorSize(evArg'[2])]_vars

\* C13 as amended: the counter the callback's mode and device select increases
\* by len*512 (floppy) or len*2048 (CD-ROM) and the other three are unchanged,
\* so exactly one counter changes when len > 0 and none when len = 0.
C13_SelectedCounterIncreases ==
  [][(ev' = "IderSectorStats" /\ iderRef # Null)
       => LET k == CounterOf(evArg'[1], evArg'[2])
              old == Counters(iderHeap, iderRef)
              new == Counters(iderHeap', iderRef)
          IN /\ new[k] = old[k] + evArg'[3] * SectorSize(evArg'[2])
             /\ \A i \in (1..4) \ {k} : new[i] = old[i]
             /\ iderRef' = iderRef
             /\ {i \in 1..4 : new[i] # old[i]} = (IF evArg'[3] > 0 THEN {k} ELSE {})]_vars

C13_Witness ==
  /\ ev = "IderSectorStats"
  /\ evArg = <<0, 2, 1>>
  /\ iderRef # Null
  /\ Counters(iderHeap, iderRef) = <<0, 0, 0, 2048>>

\* ------------------------------------------------------------------- Term
MountOps == {"open", "clear", "reset", "focus", "onKey"}
Registrations(xs, inst) ==
  {<<x, k>> \in Xterms \X (1..MaxTerms + 1) :
     k <= Len(xs[x].handlers) /\ xs[x].handlers[k].inst = inst}

\* C14: once a mounted Term instance has run its mount sequence, no later
\* event of that instance opens, clears, resets or focuses a terminal or
\* registers a key handler, and the instance has registered at most one key
\* handler in all.
C14_MountSequenceOnce ==
  [][/\ (TermMounted /\ openedRef /\ termInst' = termInst)
          => \A k \in 1..Len(calls') : calls'[k][1] \notin MountOps
     /\ \A i \in 1..MaxTerms : Cardinality(Registrations(xterms', i)) <= 1]_vars

\* The mount effect has run again for a new xterm prop and has done nothing.
C14_Witness ==
  /\ TermMounted /\ ev = "TermRerender" /\ openedRef
  /\ termProps.xterm # Null
  /\ Registrations(xterms, termInst) # {}
  /\ \A k \in 1..Len(xterms[termProps.xterm].handlers) :
       xterms[termProps.xterm].handlers[k].inst # termInst
  /\ calls = <<>>

\* The terminal whose key event the mounted Term has just handled, the key
\* handlers it ran, and the calls of the event by their operation.
KeyTarget == CHOOSE x \in Xterms : xterms[x].element = termInst
KeyHandlers == xterms[KeyTarget].handlers
CallsNamed(op) == {k \in 1..Len(calls) : calls[k][1] = op}
CtrlKey(e, k) == e.ctrlKey /\ e.domKey = k

C17_OtherKeys ==
  (ev = "TermKey" /\ ~CtrlKey(evArg, "c") /\ ~CtrlKey(evArg, "v"))
    => /\ Len(calls) = Len(KeyHandlers)
       /\ \A k \in 1..Len(calls) :
            /\ calls[k][1] = "handleKeyPress"
            /\ calls[k][3] = IF evArg.domKey = "Backspace"
                             THEN <<"BS", "SP", "BS">> ELSE evArg.key

\* Backspace has been forwarded as the three characters.
C17_Witness ==
  /\ ev = "TermKey" /\ evArg.domKey = "Backspace" /\ evArg.key = <<"DEL">>
  /\ calls = <<<<"handleKeyPress", termProps.handleKeyPress, <<"BS", "SP", "BS">> >>>>

C21_DisabledIffNoFile ==
  /\ AttachButtonDisabled <=> selectedFile \notin FileNames
  /\ ev = "FileChange"
       => IF evArg.isNull \/ Len(evArg.list) = 0
          THEN selectedFile \notin FileNames /\ AttachButtonDisabled
          ELSE selectedFile = evArg.list[1] /\ ~AttachButtonDisabled

\* A file had been chosen, then a change event came with an empty list.
C21_Witness ==
  /\ ev = "FileChange" /\ ~evArg.isNull /\ evArg.list = <<>>
  /\ attachIderState = 1
  /\ AttachButtonDisabled

\* The integer a select value writes.
IntegerOf(text) ==
  CASE text = <<"1">> -> 1
    [] text = <<"2">> -> 2
    [] text = <<"1", "0">> -> 10
    [] text = <<"2", "x">> -> 2
    [] OTHER -> NaN

\* C22: the encoding selector is disabled exactly when the connection state
\* is 2, so no selection change arrives in state 2, and every selection
\* change calls the settings callback exactly once, with the integer the
\* selected value writes.
C22_EncodingSelector ==
  /\ isConnected(headerState) <=> headerState = 2
  /\ ev = "EncodingSelect"
       => /\ headerState # 2
          /\ calls = <<<<"changeEncoding", 0, IntegerOf(evArg)>>>>
          /\ value = IntegerOf(evArg)

\* RLE16 was selected while connecting.
C22_Witness ==
  /\ ev = "EncodingSelect" /\ evArg = <<"2">>
  /\ headerState = 1
  /\ calls = <<<<"changeEncoding", 0, 2>>>>

\* C23: the label of the connect button is the connecting label in state 1,
\* the disconnect label in state 2 and the connect label in every other
\* state.
C23_ButtonLabel ==
  /\ headerState = 1 => getButtonText(headerState) = "kvm.connecting"
  /\ headerState = 2 => getButtonText(headerState) = "kvm.disconnect"
  /\ headerState \notin {1, 2} => getButtonText(headerState) = "kvm.connect"

\* The button is rendered with a state that is none of 0, 1, 2.
C23_Witness ==
  /\ ev = "HeaderRender" /\ evArg = 3 /\ headerState = 3
  /\ getButtonText(headerState) = "kvm.connect"

\* C24: mounted Sol renders the terminal only while SOLstate is 3 and it
\* holds a terminal instance; in the states 0, 1 and 2 it renders none and the
\* button shows the connect label.
C24_TerminalOnlyWhenReady ==
  (component = "sol" /\ lifecycle = "mounted")
    => /\ SolRendersTerm => (SOLstate = 3 /\ xterm # Null)
       /\ SOLstate \in {0, 1, 2}
            => (~SolRendersTerm /\ SolButtonLabel = "sol.connect")

\* Connected but not ready: a terminal instance exists and is not rendered.
C24_Witness ==
  /\ component = "sol" /\ lifecycle = "mounted"
  /\ SOLstate = 2 /\ xterm # Null
  /\ ~SolRendersTerm /\ SolButtonLabel = "sol.connect"

\* C25: the desktop handler KVM holds after an encoding change made in
\* state 2 (the one the automatic reconnect starts) has bpp equal to the
\* encoding selected, and neither the report of state 0 nor the restart
\* replaces that handler or changes its bpp.
C25_ReconnectUsesSelected ==
  [][/\ (KvmMounted /\ kvmstate = 2 /\ ev' = "ChangeEncoding" /\ moduleRef' # Null)
          => heap'[moduleRef'].bpp = evArg'
     /\ (/\ KvmMounted /\ moduleRef # Null
         /\ ev' = "TimerFire" \/ (ev' = "StateCallback" /\ evArg' = 0))
          => /\ moduleRef' = moduleRef
             /\ heap'[moduleRef'].bpp = heap[moduleRef].bpp]_vars

\* C26: a restart is scheduled only by a report of state 0 that finds the
\* settings-changed flag set, and that report schedules exactly one and clears
\* the flag; no other step (connect click, device change, error, a report
\* that finds the flag clear) schedules one; and the flag becomes set only by
\* an encoding change made in state 2, so that between two scheduled restarts
\* there is a settings change.
C26_RestartOnlyOnFlaggedDisconnect ==
  [][/\ (CallsOf(calls', "setTimeout") # {} \/ Len(timers') > Len(timers))
          => /\ ev' = "StateCallback" /\ evArg' = 0
             /\ desktopSettingsChangeRef
             /\ ~desktopSettingsChangeRef'
             /\ Cardinality(CallsOf(calls', "setTimeout")) = 1
             /\ Len(timers') = Len(timers) + 1
     /\ (ev' = "StateCallback" /\ evArg' = 0 /\ ~desktopSettingsChangeRef)
          => /\ CallsOf(calls', "setTimeout") = {}
             /\ timers' = timers
             /\ ~desktopSettingsChangeRef'
     /\ (~desktopSettingsChangeRef /\ desktopSettingsChangeRef')
          => ev' = "ChangeEncoding" /\ kvmstate = 2]_vars

\* The report of state 0 that follows a settings change has scheduled the
\* restart and cleared the flag.
C26_Witness ==
  /\ ev = "StateCallback"
  /\ evArg = 0
  /\ kvmstate = 0
  /\ Cardinality(CallsOf(calls, "setTimeout")) = 1
  /\ ~desktopSettingsChangeRef
  /\ timers = <<(<<RECONNECT_DELAY, 0>>)>>

\* C27: a step in which authToken, mpsServer, mouseDebounceTime or the
\* encoding changes leaves the redirector reference as it is when the
\* redirector it holds is started and not stopped (its socket is open and no
\* stop is invoked on it in the step).
C27_StartedRedirectorKept ==
  [][(/\ ev' \in {"AuthTokenChange", "MpsServerChange", "MouseDebounceTimeChange",
                  "ChangeEncoding"}
      /\ redirectorRef # Null
      /\ heap[redirectorRef].sock
      /\ CallsOn(calls', "stop", redirectorRef) = {})
       => redirectorRef' = redirectorRef]_vars

\* C28: the unmount of KVM invokes stop exactly once, on the redirector held
\* when it begins, and UnGrabKeyInput exactly once, on the keyboard helper
\* held when it begins; with no redirector or helper held it invokes neither.
C28_UnmountStopsOnce ==
  [][ev' = "Unmount"
       => /\ CallsOf(calls', "stop")
               = (IF redirectorRef # Null
                  THEN CallsOn(calls', "stop", redirectorRef) ELSE {})
          /\ Cardinality(CallsOf(calls', "stop"))
               = (IF redirectorRef # Null THEN 1 ELSE 0)
          /\ CallsOf(calls', "UnGrabKeyInput")
               = (IF keyboardRef # Null
                  THEN CallsOn(calls', "UnGrabKeyInput", keyboardRef) ELSE {})
          /\ Cardinality(CallsOf(calls', "UnGrabKeyInput"))
               = (IF keyboardRef # Null THEN 1 ELSE 0)]_vars

\* KVM was unmounted while its second handler graph was connected: stop found
\* the socket open and UnGrabKeyInput found the keyboard grabbed.
C28_Witness ==
  /\ ev = "Unmount"
  /\ lifecycle = "unmounted"
  /\ Len(calls) >= 2
  /\ calls[1] = <<"stop", 2, TRUE>>
  /\ calls[2] = <<"UnGrabKeyInput", 2, TRUE>>

SolRefsAre(s, id) ==
  /\ s.solRedirectorRef = id /\ s.terminalRef = id
  /\ s.solDataProcessorRef = id /\ s.termRef = id
SolPropChanges == {"SolDeviceChange", "SolMpsServerChange", "SolAuthTokenChange"}

\* C29: the unmount of Sol and every change of deviceId, mpsServer or
\* authToken invoke stop exactly once, on the redirector held before, and
\* dispose exactly once, on the terminal instance held before, that is while
\* the references still hold them; the unmount leaves the four references
\* cleared; a prop change constructs, after the stop and the dispose, one
\* fresh graph that all four references and the xterm state hold, configured
\* from the new props, not started and not disposed.
C29_TeardownThenFresh ==
  [][(ev' \in SolPropChanges \cup {"SolUnmount"} /\ solRedirectorRef # Null /\ termRef # Null)
       => /\ CallsOf(calls', "stop") = {1}
          /\ calls'[1][2] = solRedirectorRef
          /\ CallsOf(calls', "dispose") = {2}
          /\ calls'[2][2] = termRef
          /\ IF ev' = "SolUnmount"
             THEN /\ Len(calls') = 2
                  /\ SolRefsAre(SolState', Null)
             ELSE /\ Len(calls') = 3
                  /\ calls'[3] = <<"new", solNextId, FALSE>>
                  /\ solNextId' = solNextId + 1
                  /\ solNextId \notin {solRedirectorRef, terminalRef,
                                       solDataProcessorRef, termRef}
                  /\ SolRefsAre(SolState', solNextId)
                  /\ xterm' = solNextId
                  /\ solHeap'[solNextId].host = OrEmpty(solProps'.deviceId)
                  /\ solHeap'[solNextId].authToken = OrEmpty(solProps'.authToken)
                  /\ solHeap'[solNextId].server = server(solProps'.mpsServer)
                  /\ ~solHeap'[solNextId].sock
                  /\ ~solHeap'[solNextId].disposed]_vars

\* The mpsServer of a connected Sol changed: the started redirector was
\* stopped, the terminal disposed, and a second graph built for the new server.
C29_Witness ==
  /\ ev = "SolMpsServerChange"
  /\ calls = <<(<<"stop", 1, TRUE>>), (<<"dispose", 1, FALSE>>), (<<"new", 2, FALSE>>)>>
  /\ SolRefsAre(SolState, 2)
  /\ solHeap[2].server = <<"w", "s", ":", "m">>

\* C30: a click on Sol's connect button while SOLstate is 1 or 2 invokes no
\* start on a redirector that is started and not stopped (its socket open).
C30_NoSecondStart ==
  [][(ev' = "SolConnectClick" /\ SOLstate \in {1, 2})
       => \A i \in CallsOf(calls', "start") : ~calls'[i][3]]_vars

\* C31: in every state between two events of KVM the five handler references
\* (desktop module, redirector, data processor, mouse helper, keyboard helper)
\* are all none or all held.
C31_AllOrNothing ==
  component = "kvm"
    => \/ AllRefsAre(KvmState, Null)
       \/ Null \notin {moduleRef, dataProcessorRef, redirectorRef,
                       mouseHelperRef, keyboardRef}

\* An error of the started redirector tore the five handlers down and
\* constructed five new ones.
C31_Witness ==
  /\ ev = "RedirectorError"
  /\ calls = <<(<<"clearRect", Null, FALSE>>), (<<"new", 2, FALSE>>)>>
  /\ AllRefsAre(KvmState, 2)
  /\ heap[1].sock

\* C32: while KVM is mounted, between two events (all effects of the latest
\* render have run), the redirector it holds, if any, has the configuration
\* init computes from the current deviceId, mpsServer and authToken props.
C32_RedirectorFromCurrentProps ==
  (KvmMounted /\ redirectorRef # Null)
    => /\ heap[redirectorRef].host = OrEmpty(props.deviceId)
       /\ heap[redirectorRef].server = server(props.mpsServer)
       /\ heap[redirectorRef].authToken = props.authToken

\* After changes of authToken and mpsServer an error of the first redirector,
\* built from the old props, re-created the held one.
C32_Witness ==
  /\ KvmMounted
  /\ ev = "RedirectorError"
  /\ evArg = 1
  /\ redirectorRef > 2
  /\ props.authToken = "t2"
  /\ props.mpsServer # DefaultServer
  /\ heap[redirectorRef].authToken = "t2"
  /\ heap[redirectorRef].server = <<"w", "s", ":", "m">>

\* C33: as long as no canvas context was delivered KVM holds none of the five
\* handlers and has constructed none, and no event, a connect click included,
\* invokes start or GrabKeyInput.
C33_NothingWithoutContext ==
  (component = "kvm" /\ ~ctxRef)
    => /\ AllRefsAre(KvmState, Null)
       /\ nextId = 1
       /\ CallsOf(calls, "new") = {}
       /\ CallsOf(calls, "start") = {}
       /\ CallsOf(calls, "GrabKeyInput") = {}

\* A connect click on a KVM whose canvas gave no context, after a device
\* change had run stopKVM and its init.
C33_Witness ==
  /\ KvmMounted
  /\ ~ctxRef
  /\ ev = "ConnectClick"
  /\ evArg = 0
  /\ calls = <<>>
  /\ props.deviceId = "d2"
  /\ redirectorRef = Null

\* C34: a sector callback that arrives while no IDER handler is held, after a
\* stop or after the unmount, changes no counter of any object and no
\* reference, and makes no call and throws nothing.
C34_CallbackWithoutHandler ==
  [][(ev' = "IderSectorStats" /\ iderRef = Null)
       => /\ iderHeap' = iderHeap
          /\ iderRef' = Null
          /\ iderRedirectorRef' = iderRedirectorRef
          /\ calls' = <<>>]_vars

\* A read of one CD-ROM sector is reported after the unmount.
C34_Witness ==
  /\ ev = "IderSectorStats"
  /\ evArg = <<1, 1, 1>>
  /\ lifecycle = "unmounted"
  /\ iderRef = Null
  /\ \E id \in DOMAIN iderHeap :
       iderHeap[id].kind = "ider" /\ Counters(iderHeap, id) = <<0, 0, 0, 0>>

\* C35: whenever the session state AttachDiskImage holds is running
\* (iderState = 1) its start/stop button is enabled.
C35_RunningCanBeStopped ==
  (Widgets /\ attachIderState = 1) => ~AttachButtonDisabled

\* C36: in a run of KVM whose encoding changes all come from the select of
\* its Header, changeDesktopSettings is never called while kvmstate is 2, the
\* settings-changed flag is false in every state, and no restart is ever
\* scheduled.
C36_HeaderNeverReconnects ==
  [][/\ ev' = "HeaderEncodingSelect" => kvmstate # 2
     /\ ~desktopSettingsChangeRef'
     /\ CallsOf(calls', "setTimeout") = {}
     /\ timers' = <<>>]_vars

\* The session started after the select chose encoding 2 is connected: the
\* select is disabled, the flag clear and nothing scheduled.
C36_Witness ==
  /\ KvmMounted
  /\ ev = "StateCallback"
  /\ kvmstate = 2
  /\ isConnected(kvmstate)
  /\ encodingOption = 2
  /\ redirectorRef # Null
  /\ heap[redirectorRef].rstate = 2
  /\ heap[redirectorRef].bpp = 2
  /\ ~desktopSettingsChangeRef
  /\ timers = <<>>

\* The characters of str that are not DEL, in their order.
RECURSIVE WithoutDel(_)
WithoutDel(str) ==
  IF str = <<>> THEN <<>>
  ELSE IF Head(str) = DEL THEN WithoutDel(Tail(str))
       ELSE <<Head(str)>> \o WithoutDel(Tail(str))

\* C37: the write handler of Sol writes, to the terminal instance held, the
\* received string without its DEL characters and with the others in order,
\* once; it writes nothing when that string is empty or no terminal instance
\* is held.
C37_WriteFiltersDel ==
  [][ev' = "SolWriteData"
       => IF WithoutDel(evArg') # <<>> /\ termRef # Null
          THEN calls' = <<(<<"write", termRef, WithoutDel(evArg')>>)>>
          ELSE calls' = <<>>]_vars

\* Data with two DEL characters around one other was written as that one.
C37_Witness ==
  /\ ev = "SolWriteData"
  /\ evArg = <<DEL, "a", DEL>>
  /\ calls = <<(<<"write", termRef, <<"a">>>>)>>

=============================================================================
